---- MODULE Spec2Model ----
(***************************************************************************)
(* The plugin loader (PluginLoader, plugin_loader.h) and the registry      *)
(* bridge (PluginFactory, plugin_factory.h) of knowhere as state machines. *)
(*                                                                         *)
(* The loader's observable behaviour is the sequence of calls it makes on  *)
(* the dynamic linker (dlopen, dlsym, dlclose) and on module code (the     *)
(* exported entry points, the factory, the lifecycle hooks, destructors):  *)
(* every operation records that sequence in `calls`, in program order.     *)
(* A binary on disk is an input of dlopen: what it exports and how its     *)
(* code behaves is drawn from Binaries when it is opened.                  *)
(*                                                                         *)
(* An exception that leaves a loader operation has no handler anywhere in  *)
(* the repository: the process ends (running = FALSE).  Undefined          *)
(* behaviour (module code run after its library was closed, delete of the  *)
(* module's static lifecycle object) either goes unnoticed or crashes the  *)
(* process: both outcomes are successors.                                  *)
(***************************************************************************)
EXTENDS Integers, Sequences, FiniteSets, TLC

\* ---------------------------------------------------------------- bounds
NumPaths == 2
MaxRows == 2
MaxQueries == 1
NumThreads == 2
MaxOps == 2
MaxRefs == 3

\* ------------------------------------------------------------- constants
KNOWHERE_PLUGIN_API_VERSION == 1

Paths == 1..NumPaths
Threads == 1..NumThreads
Names == {"SimpleVector", "Flat"}
Versions == {KNOWHERE_PLUGIN_API_VERSION, KNOWHERE_PLUGIN_API_VERSION + 1}

VARIABLES
    loaded_plugins_,      \* path -> LoadedPlugin
    plugin_names_,        \* name -> path
    dl_refs,              \* path -> references the process holds on the library
    registered_plugins_,  \* plugin name -> registered name
    func_mapping_,        \* registered name -> constructor closure
    heap,                 \* path -> factory objects of that module that are alive
    disk,                 \* the plugin directory: its entries in listing order
    thr,                  \* thread -> where it is in its LoadPlugin / UnloadPlugin
    net,                  \* path -> LoadPlugin successes less UnloadPlugin successes
    calls,                \* calls made by the last operation, in program order
    last,                 \* the last operation, its argument and its result
    running,              \* the process is alive
    vectors_,             \* SimpleVectorIndex: the stored rows, flattened
    num_vectors_,         \* SimpleVectorIndex: the number of stored rows
    dim_,                 \* SimpleVectorIndex: the dimensionality
    metric_type_,         \* SimpleVectorIndex: "L2" or "IP"
    mutex_,               \* SimpleVectorIndex: the thread that holds the lock, 0 when free
    built,                \* a Build or a Deserialize of the instance has succeeded
    ret,                  \* the index call the caller holds the result of
    ithr                  \* thread -> where it is in its index operation

loaderVars == <<loaded_plugins_, plugin_names_, dl_refs>>
bridgeVars == <<registered_plugins_, func_mapping_>>
concVars == <<thr, net>>
indexVars == <<vectors_, num_vectors_, dim_, metric_type_, mutex_, built, ret, ithr>>
pluginVars == <<loaded_plugins_, plugin_names_, dl_refs, heap, registered_plugins_,
                func_mapping_, disk, thr, net, calls, last>>
vars == <<loaded_plugins_, plugin_names_, dl_refs, heap, registered_plugins_,
          func_mapping_, disk, thr, net, calls, last, running,
          vectors_, num_vectors_, dim_, metric_type_, mutex_, built, ret, ithr>>

\* ------------------------------------------------------------- helpers
Put(f, k, v) == [x \in (DOMAIN f) \cup {k} |-> IF x = k THEN v ELSE f[x]]

Erase(f, k) == [x \in (DOMAIN f) \ {k} |-> f[x]]

EmptyMap == [x \in {} |-> x]

Perms(S) == {s \in [1..Cardinality(S) -> S] : \A i, j \in DOMAIN s : i # j => s[i] # s[j]}

\* One call: what is called, on which module (by path), what it returned.
Ev(call, path, res) == <<call, path, res>>

DlCalls == {"dlopen", "dlclose", "dlsym GetKnowherePluginAPIVersion",
            "dlsym CreateKnowherePluginFactory", "dlsym DestroyKnowherePluginFactory",
            "dlsym GetKnowherePluginLifecycle"}

\* A call that executes code (or touches data) of the module's library.
ModuleCode(e) == e[1] \notin DlCalls

\* dlopen / dlclose reference counting of the dynamic linker.
RECURSIVE ApplyDl(_, _)
ApplyDl(refs, cs) ==
    IF cs = <<>> THEN refs
    ELSE LET e == Head(cs)
             r == IF e[1] = "dlopen" /\ e[3] = "handle"
                      THEN [refs EXCEPT ![e[2]] = @ + 1]
                  ELSE IF e[1] = "dlclose" /\ refs[e[2]] > 0
                      THEN [refs EXCEPT ![e[2]] = @ - 1]
                  ELSE refs
         IN ApplyDl(r, Tail(cs))

\* The factory objects alive: created by the factory entry point, destroyed
\* by delete.
RECURSIVE ApplyHeap(_, _)
ApplyHeap(h, cs) ==
    IF cs = <<>> THEN h
    ELSE LET e == Head(cs)
             r == IF e[1] = "CreateKnowherePluginFactory" /\ e[3] = "returns"
                      THEN [h EXCEPT ![e[2]] = @ + 1]
                  ELSE IF e[1] = "delete factory" /\ h[e[2]] > 0
                      THEN [h EXCEPT ![e[2]] = @ - 1]
                  ELSE h
         IN ApplyHeap(r, Tail(cs))

\* ---------------------------------------------------------- the binaries
\* What dlopen(path) finds: the exports of the binary and the behaviour of
\* its code.
AllBinaries ==
    [open : BOOLEAN,
     get_version : {"absent", "returns", "throw_std", "throw_other"},
     api : Versions,
     create_factory : {"absent", "returns", "null", "throw_std", "throw_other"},
     destroy_factory : {"absent", "present"},
     info : {"returns", "throw_std", "throw_other"},
     name : Names,
     info_api : Versions,
     get_lifecycle : {"absent", "null", "returns"},
     on_load : {"ok", "fail", "throw_std", "throw_other"}]

B2N(b) == IF b THEN 1 ELSE 0

\* In how many ways a binary departs from a well-behaved module.
Faults(m) ==
    B2N(~m.open) + B2N(m.get_version # "returns")
    + B2N(m.api # KNOWHERE_PLUGIN_API_VERSION)
    + B2N(m.create_factory # "returns") + B2N(m.destroy_factory # "present")
    + B2N(m.info # "returns") + B2N(m.info_api # KNOWHERE_PLUGIN_API_VERSION)
    + B2N(m.on_load # "ok")

\* The binaries LoadPlugin tells apart: an export or a behaviour that
\* LoadPlugin never gets to (it returned, or the exception left, before) is
\* fixed to that of a well-behaved module.
Distinct(m) ==
    LET versionRead == m.open /\ m.get_version = "returns"
        factorySought == versionRead /\ m.api = KNOWHERE_PLUGIN_API_VERSION
        factoryCalled == /\ factorySought
                         /\ m.create_factory # "absent" /\ m.destroy_factory = "present"
        infoRead == factoryCalled /\ m.create_factory = "returns"
        lifecycleSought == infoRead /\ m.info = "returns"
        hookCalled == lifecycleSought /\ m.get_lifecycle = "returns"
    IN  /\ ~m.open => m.get_version = "returns"
        /\ ~versionRead => m.api = KNOWHERE_PLUGIN_API_VERSION
        /\ ~factorySought => m.create_factory = "returns" /\ m.destroy_factory = "present"
        /\ (factorySought /\ ~factoryCalled) => m.create_factory \in {"absent", "returns"}
        /\ ~infoRead => m.info = "returns"
        /\ ~lifecycleSought => /\ m.name = "Flat"
                               /\ m.info_api = KNOWHERE_PLUGIN_API_VERSION
                               /\ m.get_lifecycle = "absent"
        /\ ~hookCalled => m.on_load = "ok"

Binaries == {m \in AllBinaries : Distinct(m)}

\* ------------------------------------------------------------ LoadPlugin
\* The result of an operation on the loader: the status returned, the calls
\* made, and the loader's maps afterwards.
Result(status, cs, lp, names) ==
    [status |-> status, calls |-> cs, lp |-> lp, names |-> names]

\* The check for a tracked path left out.
AlreadyLoadedNever(lp, path) == FALSE

AlreadyLoaded(lp, path) == path \in DOMAIN lp

\* The version comparison left out.
ApiVersionMatchesAny(v) == TRUE

ApiVersionMatches(v) == v = KNOWHERE_PLUGIN_API_VERSION

\* catch (const std::exception& e)
Caught(e) == e = "throw_std"

Throws(r) == r \in {"throw_std", "throw_other"}

\* Exit taken when the version export is missing.
MissingVersionExit(path) == <<Ev("dlclose", path, "")>>

\* Exit taken on a version mismatch.
VersionMismatchExit(path) == <<Ev("dlclose", path, "")>>

\* Exit taken when a factory export is missing.
MissingFactoryExit(path) == <<Ev("dlclose", path, "")>>

\* The null-factory exit without its dlclose.
NullFactoryExitLeaks(path) == <<>>

\* Exit taken when create_factory() returned null.
NullFactoryExit(path) == <<Ev("dlclose", path, "")>>

\* An exception thrown by module code inside the try block: the locals
\* alive at the throw are destroyed (unwind), then the handler, if the
\* exception is one it catches, closes the handle.
ExceptionExit(e, path, sofar, unwind, lp, names) ==
    IF Caught(e)
        THEN Result("invalid_args", sofar \o unwind \o <<Ev("dlclose", path, "")>>, lp, names)
        ELSE Result("escaped", sofar \o unwind, lp, names)

\* The lifecycle part of LoadPlugin with a failed OnLoad treated as a failed
\* load.
LoadLifecycleAndStoreStrict(path, m, sofar, lp, names) ==
    LET c0 == sofar \o <<Ev("dlsym GetKnowherePluginLifecycle", path,
                            IF m.get_lifecycle = "absent" THEN "NULL" ELSE "present")>>
        c1 == IF m.get_lifecycle = "absent" THEN c0
              ELSE c0 \o <<Ev("GetKnowherePluginLifecycle", path,
                              IF m.get_lifecycle = "null" THEN "NULL" ELSE "lifecycle")>>
        has == m.get_lifecycle = "returns"
        c2 == IF has THEN c1 \o <<Ev("OnLoad", path, m.on_load)>> ELSE c1
        plugin == [path |-> path, handle |-> path, factory |-> path, lifecycle |-> has,
                   info |-> [name |-> m.name, api_version |-> m.info_api]]
    IN  IF has /\ Throws(m.on_load)
            THEN ExceptionExit(m.on_load, path, c2,
                               <<Ev("delete lifecycle", path, ""), Ev("delete factory", path, "")>>,
                               lp, names)
        ELSE IF has /\ m.on_load = "fail"
            THEN Result("invalid_args",
                        c2 \o <<Ev("delete lifecycle", path, ""), Ev("delete factory", path, ""),
                                Ev("dlclose", path, "")>>, lp, names)
            ELSE Result("success", c2, Put(lp, path, plugin), Put(names, m.name, path))

\* The lifecycle part of LoadPlugin and the store that follows it.
LoadLifecycleAndStore(path, m, sofar, lp, names) ==
    LET c0 == sofar \o <<Ev("dlsym GetKnowherePluginLifecycle", path,
                            IF m.get_lifecycle = "absent" THEN "NULL" ELSE "present")>>
        c1 == IF m.get_lifecycle = "absent" THEN c0
              ELSE c0 \o <<Ev("GetKnowherePluginLifecycle", path,
                              IF m.get_lifecycle = "null" THEN "NULL" ELSE "lifecycle")>>
        has == m.get_lifecycle = "returns"
        c2 == IF has THEN c1 \o <<Ev("OnLoad", path, m.on_load)>> ELSE c1
        plugin == [path |-> path, handle |-> path, factory |-> path, lifecycle |-> has,
                   info |-> [name |-> m.name, api_version |-> m.info_api]]
    IN  IF has /\ Throws(m.on_load)
            THEN ExceptionExit(m.on_load, path, c2,
                               <<Ev("delete lifecycle", path, ""), Ev("delete factory", path, "")>>,
                               lp, names)
            ELSE Result("success", c2, Put(lp, path, plugin), Put(names, m.name, path))

\* The factory part of LoadPlugin.
LoadFactory(path, m, sofar, lp, names) ==
    LET c0 == sofar \o
              <<Ev("dlsym CreateKnowherePluginFactory", path,
                   IF m.create_factory = "absent" THEN "NULL" ELSE "present"),
                Ev("dlsym DestroyKnowherePluginFactory", path,
                   IF m.destroy_factory = "absent" THEN "NULL" ELSE "present")>>
    IN  IF m.create_factory = "absent" \/ m.destroy_factory = "absent"
            THEN Result("invalid_args", c0 \o MissingFactoryExit(path), lp, names)
        ELSE LET c1 == c0 \o <<Ev("CreateKnowherePluginFactory", path, m.create_factory)>>
             IN  IF Throws(m.create_factory)
                     THEN ExceptionExit(m.create_factory, path, c1, <<>>, lp, names)
                 ELSE IF m.create_factory = "null"
                     THEN Result("invalid_args", c1 \o NullFactoryExit(path), lp, names)
                 ELSE LET c2 == c1 \o <<Ev("GetPluginInfo", path, m.info)>>
                      IN  IF Throws(m.info)
                              THEN ExceptionExit(m.info, path, c2,
                                                 <<Ev("delete factory", path, "")>>, lp, names)
                              ELSE LoadLifecycleAndStore(path, m, c2, lp, names)

\* LoadPlugin with the factory entry point looked up before the version
\* entry point.
LoadPluginOnFactoryFirst(lp, names, path, m) ==
    IF AlreadyLoaded(lp, path)
        THEN Result("invalid_args", <<>>, lp, names)
    ELSE IF ~m.open
        THEN Result("invalid_args", <<Ev("dlopen", path, "NULL")>>, lp, names)
    ELSE LET c0 == <<Ev("dlopen", path, "handle"),
                     Ev("dlsym CreateKnowherePluginFactory", path,
                        IF m.create_factory = "absent" THEN "NULL" ELSE "present"),
                     Ev("dlsym GetKnowherePluginAPIVersion", path,
                        IF m.get_version = "absent" THEN "NULL" ELSE "present")>>
         IN  IF m.get_version = "absent"
                 THEN Result("invalid_args", c0 \o MissingVersionExit(path), lp, names)
             ELSE IF Throws(m.get_version)
                 THEN ExceptionExit(m.get_version, path,
                                    c0 \o <<Ev("GetKnowherePluginAPIVersion", path, m.get_version)>>,
                                    <<>>, lp, names)
             ELSE LET c1 == c0 \o <<Ev("GetKnowherePluginAPIVersion", path, ToString(m.api))>>
                  IN  IF ~ApiVersionMatches(m.api)
                          THEN Result("invalid_args", c1 \o VersionMismatchExit(path), lp, names)
                          ELSE LoadFactory(path, m, c1, lp, names)

\* PluginLoader::LoadPlugin(path) on the maps lp, names, with binary m at path.
LoadPluginOn(lp, names, path, m) ==
    IF AlreadyLoaded(lp, path)
        THEN Result("invalid_args", <<>>, lp, names)
    ELSE IF ~m.open
        THEN Result("invalid_args", <<Ev("dlopen", path, "NULL")>>, lp, names)
    ELSE LET c0 == <<Ev("dlopen", path, "handle"),
                     Ev("dlsym GetKnowherePluginAPIVersion", path,
                        IF m.get_version = "absent" THEN "NULL" ELSE "present")>>
         IN  IF m.get_version = "absent"
                 THEN Result("invalid_args", c0 \o MissingVersionExit(path), lp, names)
             ELSE IF Throws(m.get_version)
                 THEN ExceptionExit(m.get_version, path,
                                    c0 \o <<Ev("GetKnowherePluginAPIVersion", path, m.get_version)>>,
                                    <<>>, lp, names)
             ELSE LET c1 == c0 \o <<Ev("GetKnowherePluginAPIVersion", path, ToString(m.api))>>
                  IN  IF ~ApiVersionMatches(m.api)
                          THEN Result("invalid_args", c1 \o VersionMismatchExit(path), lp, names)
                          ELSE LoadFactory(path, m, c1, lp, names)

\* ---------------------------------------------------------- UnloadPlugin
\* ~LoadedPlugin: the members are destroyed in reverse order of declaration,
\* the unique_ptrs with plain delete.
DestroyLoadedPlugin(path, plugin) ==
    (IF plugin.lifecycle THEN <<Ev("delete lifecycle", path, "")>> ELSE <<>>)
    \o <<Ev("delete factory", path, "")>>

\* The hook call of an unload; hook is the status OnUnload returns.
UnloadHook(path, plugin, hook) ==
    IF plugin.lifecycle THEN <<Ev("OnUnload", path, hook)>> ELSE <<>>

\* The handle closed before the hook is called.
UnloadSequenceClosesFirst(path, plugin, hook) ==
    <<Ev("dlclose", path, "")>>
    \o UnloadHook(path, plugin, hook)
    \o DestroyLoadedPlugin(path, plugin)

\* The calls of UnloadPlugin for a tracked module.
UnloadSequence(path, plugin, hook) ==
    UnloadHook(path, plugin, hook)
    \o <<Ev("dlclose", path, "")>>
    \o DestroyLoadedPlugin(path, plugin)

\* PluginLoader::UnloadPlugin(name).
UnloadPluginOn(lp, names, name, hook) ==
    IF name \notin DOMAIN names
        THEN Result("invalid_args", <<>>, lp, names)
    ELSE LET path == names[name]
         IN  IF path \notin DOMAIN lp
                 THEN Result("invalid_args", <<>>, lp, names)
                 ELSE Result("success", UnloadSequence(path, lp[path], hook),
                             Erase(lp, path), Erase(names, name))

\* The loop of UnloadAll with no hook called.
RECURSIVE UnloadAllLoopWithoutHooks(_, _, _)
UnloadAllLoopWithoutHooks(lp, order, hook) ==
    IF order = <<>> THEN <<>>
    ELSE <<Ev("dlclose", Head(order), "")>> \o UnloadAllLoopWithoutHooks(lp, Tail(order), hook)

\* PluginLoader::UnloadAll(): the loop in the map's iteration order, then the
\* two clear() calls.
RECURSIVE UnloadAllLoop(_, _, _)
UnloadAllLoop(lp, order, hook) ==
    IF order = <<>> THEN <<>>
    ELSE LET path == Head(order)
         IN  UnloadHook(path, lp[path], hook) \o <<Ev("dlclose", path, "")>>
             \o UnloadAllLoop(lp, Tail(order), hook)

RECURSIVE ClearLoaded(_, _)
ClearLoaded(lp, order) ==
    IF order = <<>> THEN <<>>
    ELSE DestroyLoadedPlugin(Head(order), lp[Head(order)]) \o ClearLoaded(lp, Tail(order))

UnloadAllOn(lp, names, order, hook) ==
    Result("void", UnloadAllLoop(lp, order, hook) \o ClearLoaded(lp, order), EmptyMap, EmptyMap)

\* ------------------------------------------------------------- queries
NULL == 0

\* PluginLoader::GetPluginFactory(name): the factory of the module at
\* plugin_names_[name], named by that module's path.
GetPluginFactoryOn(lp, names, name) ==
    IF name \notin DOMAIN names THEN NULL
    ELSE IF names[name] \notin DOMAIN lp THEN NULL
    ELSE lp[names[name]].factory

GetPluginFactory(name) == GetPluginFactoryOn(loaded_plugins_, plugin_names_, name)

\* PluginLoader::ListPlugins(): one descriptor per tracked module.
ListPluginsOn(lp) == {[path |-> p, info |-> lp[p].info] : p \in DOMAIN lp}

ListPlugins == ListPluginsOn(loaded_plugins_)

\* ---------------------------------------------- LoadPluginsFromDirectory
\* A module with every export, whose code behaves, and without lifecycle hooks.
GoodBinary(name) ==
    [open |-> TRUE, get_version |-> "returns", api |-> KNOWHERE_PLUGIN_API_VERSION,
     create_factory |-> "returns", destroy_factory |-> "present", info |-> "returns",
     name |-> name, info_api |-> KNOWHERE_PLUGIN_API_VERSION,
     get_lifecycle |-> "absent", on_load |-> "ok"]

\* What dlopen makes of a file that is no library, or of no file at all.
NotOpenable == [GoodBinary("Flat") EXCEPT !.open = FALSE]

\* The binaries found in a plugin directory: well-behaved ones, one built
\* against another API version, one whose version entry point throws
\* something that is no std::exception.
DiskBinaries ==
    {GoodBinary(n) : n \in Names}
    \cup {[GoodBinary("Flat") EXCEPT !.api = KNOWHERE_PLUGIN_API_VERSION + 1],
          [GoodBinary("Flat") EXCEPT !.get_version = "throw_other"]}

\* A directory entry; plugin_file: a regular file with extension .so, .dylib
\* or .dll.
DirEntries ==
    [path : Paths, plugin_file : {TRUE}, binary : DiskBinaries]
    \cup [path : Paths, plugin_file : {FALSE}, binary : {NotOpenable}]

\* The listings of a directory, in the order directory_iterator yields them.
Directories ==
    {d \in UNION {[1..n -> DirEntries] : n \in 0..NumPaths} :
        \A i, j \in DOMAIN d : i # j => d[i].path # d[j].path}

\* The loop of LoadPluginsFromDirectory over the entries; an exception that
\* leaves LoadPlugin leaves the loop.
RECURSIVE ScanDirectory(_, _, _, _)
ScanDirectory(lp, names, entries, cs) ==
    IF entries = <<>> THEN Result("success", cs, lp, names)
    ELSE LET e == Head(entries)
         IN  IF ~e.plugin_file THEN ScanDirectory(lp, names, Tail(entries), cs)
             ELSE LET r == LoadPluginOn(lp, names, e.path, e.binary)
                  IN  IF r.status = "escaped"
                          THEN Result("escaped", cs \o r.calls, r.lp, r.names)
                          ELSE ScanDirectory(r.lp, r.names, Tail(entries), cs \o r.calls)

\* PluginLoader::LoadPluginsFromDirectory(directory); exists: the directory
\* exists, and entries is its listing.
LoadPluginsFromDirectoryOn(lp, names, exists, entries) ==
    IF ~exists THEN Result("invalid_args", <<>>, lp, names)
    ELSE ScanDirectory(lp, names, entries, <<>>)

\* ------------------------------------------------------- the registry
\* IndexFactory::Register(name, create_func, features): the global map from
\* registered name to constructor.
Register(fm, full_name, create_func) == Put(fm, full_name, create_func)

\* IndexFactory::Create(name): the constructor registered under the name is
\* invoked; an unregistered name is an error.
Lookup(fm, full_name) == full_name \in DOMAIN fm

\* ------------------------------------------------------ PluginFactory
FullName(name) == "PLUGIN_" \o name

FeatureFlags == {"GPU", "MMAP", "DISK"}

\* The feature set built from the probe's PluginFeatures.
FeatureSet(features) ==
    {f \in FeatureFlags : \/ f = "GPU" /\ features.supports_gpu
                          \/ f = "MMAP" /\ features.supports_mmap
                          \/ f = "DISK" /\ features.supports_disk_storage}

\* What the index of a module declares: SimpleVectorIndex::GetFeatures, and a
\* second module that maps its storage and keeps it on disk.
GetFeatures(name) ==
    IF name = "SimpleVector"
        THEN [supports_gpu |-> FALSE, supports_mmap |-> FALSE, supports_disk_storage |-> FALSE]
        ELSE [supports_gpu |-> FALSE, supports_mmap |-> TRUE, supports_disk_storage |-> TRUE]

\* The result of an operation of the bridge.
BResult(status, cs, lp, names, reg, fm) ==
    [status |-> status, calls |-> cs, lp |-> lp, names |-> names, reg |-> reg, fm |-> fm]

\* The closure create_func: it captures the factory pointer by value.
CreateFunc(plugin_factory, features) ==
    [factory |-> plugin_factory, dangling |-> FALSE, features |-> FeatureSet(features)]

\* The body of create_func, run by IndexFactory::Create: index is what the
\* factory's CreateIndex returns.
InvokeCreateFunc(closure, index) ==
    [status |-> IF index = "null" THEN "invalid_args" ELSE "index",
     calls |-> <<Ev(IF closure.dangling THEN "CreateIndex through dangling factory"
                    ELSE "CreateIndex", closure.factory, index)>>]

\* The probe of RegisterPlugin: an index is created, asked for its features
\* and dropped at the end of the call.
ProbeCalls(plugin_factory, index) ==
    <<Ev("CreateIndex", plugin_factory, index),
      Ev(IF index = "null" THEN "GetFeatures on null" ELSE "GetFeatures", plugin_factory, "")>>
    \o (IF index = "null" THEN <<>> ELSE <<Ev("delete index", plugin_factory, "")>>)

\* RegisterPlugin that records the name although no factory was found.
RegisterPluginOnUnchecked(lp, names, reg, fm, name, index) ==
    LET plugin_factory == GetPluginFactoryOn(lp, names, name)
    IN  IF plugin_factory = NULL
            THEN BResult("success", <<>>, lp, names, Put(reg, name, FullName(name)), fm)
            ELSE LET info == lp[plugin_factory].info
                     full_name == FullName(info.name)
                 IN  BResult("success",
                             <<Ev("GetPluginInfo", plugin_factory, "returns")>>
                             \o ProbeCalls(plugin_factory, index[plugin_factory]),
                             lp, names,
                             Put(reg, name, full_name),
                             Register(fm, full_name,
                                      CreateFunc(plugin_factory, GetFeatures(info.name))))

\* PluginFactory::RegisterPlugin(name); index[p] is what CreateIndex of the
\* factory of the module at p returns.
RegisterPluginOn(lp, names, reg, fm, name, index) ==
    LET plugin_factory == GetPluginFactoryOn(lp, names, name)
    IN  IF plugin_factory = NULL
            THEN BResult("invalid_args", <<>>, lp, names, reg, fm)
            ELSE LET info == lp[plugin_factory].info
                     full_name == FullName(info.name)
                 IN  BResult("success",
                             <<Ev("GetPluginInfo", plugin_factory, "returns")>>
                             \o ProbeCalls(plugin_factory, index[plugin_factory]),
                             lp, names,
                             Put(reg, name, full_name),
                             Register(fm, full_name,
                                      CreateFunc(plugin_factory, GetFeatures(info.name))))

\* UnregisterPlugin that takes the constructor out of the global registry
\* as well.
UnregisterPluginOnErasingRegistry(lp, names, reg, fm, name) ==
    IF name \notin DOMAIN reg
        THEN BResult("invalid_args", <<>>, lp, names, reg, fm)
        ELSE BResult("success", <<>>, lp, names, Erase(reg, name), Erase(fm, reg[name]))

\* PluginFactory::UnregisterPlugin(name).
UnregisterPluginOn(lp, names, reg, fm, name) ==
    IF name \notin DOMAIN reg
        THEN BResult("invalid_args", <<>>, lp, names, reg, fm)
        ELSE BResult("success", <<>>, lp, names, Erase(reg, name), fm)

\* PluginFactory::IsPluginRegistered(name).
IsPluginRegistered(name) == name \in DOMAIN registered_plugins_

\* PluginFactory::GetRegisteredName(name).
GetRegisteredName(name) ==
    IF name \in DOMAIN registered_plugins_ THEN registered_plugins_[name] ELSE ""

\* PluginFactory::GetRegisteredPlugins().
GetRegisteredPlugins ==
    {[full_name |-> registered_plugins_[n],
      info |-> loaded_plugins_[GetPluginFactory(n)].info] :
        n \in {x \in DOMAIN registered_plugins_ : GetPluginFactory(x) # NULL}}

\* The loop of LoadAndRegisterPlugins over ListPlugins(), in list order.
RECURSIVE RegisterListed(_, _, _, _, _, _, _)
RegisterListed(lp, names, reg, fm, listed, cs, index) ==
    IF listed = <<>> THEN BResult("success", cs, lp, names, reg, fm)
    ELSE LET r == RegisterPluginOn(lp, names, reg, fm, lp[Head(listed)].info.name,
                                   index)
         IN  RegisterListed(lp, names, r.reg, r.fm, Tail(listed), cs \o r.calls, index)

\* PluginFactory::LoadAndRegisterPlugins(directory); order: the order in which
\* ListPlugins() lists the tracked modules.
LoadAndRegisterPluginsOn(lp, names, reg, fm, exists, entries, order, index) ==
    LET r == LoadPluginsFromDirectoryOn(lp, names, exists, entries)
    IN  IF r.status # "success"
            THEN BResult(r.status, r.calls, r.lp, r.names, reg, fm)
            ELSE RegisterListed(r.lp, r.names, reg, fm,
                                SelectSeq(order, LAMBDA p : p \in DOMAIN r.lp),
                                r.calls, index)

\* InitializePlugins(plugin_directory); explicit: a directory is given, else
\* the default locations are tried, of which the model's directory is one;
\* the status of LoadAndRegisterPlugins on a default location is dropped.
InitializePluginsOn(lp, names, reg, fm, explicit, exists, entries, order, index) ==
    LET r == LoadAndRegisterPluginsOn(lp, names, reg, fm, exists, entries, order, index)
    IN  IF explicit THEN r
        ELSE IF exists
            THEN BResult(IF r.status = "escaped" THEN "escaped" ELSE "success",
                         r.calls, r.lp, r.names, r.reg, r.fm)
            ELSE BResult("success", <<>>, lp, names, reg, fm)

\* IndexFactory::Create(full_name) for a name registered by the bridge.
CreateOn(lp, names, reg, fm, full_name, index) ==
    IF ~Lookup(fm, full_name)
        THEN BResult("invalid_args", <<>>, lp, names, reg, fm)
        ELSE LET r == InvokeCreateFunc(fm[full_name], index)
             IN  BResult(r.status, r.calls, lp, names, reg, fm)

\* ------------------------------------------------------ SimpleVectorIndex
\* The dimensionalities, the vector components and the metrics exercised.
Dims == {1, 2}

Floats == {0, 1}

Metrics == {"L2", "IP"}

\* sizeof(float)
SizeofFloat == 4

\* std::numeric_limits<float>::max(): above every distance of the model.
FloatMax == 1000000

\* A SimpleVectorIndex as constructed: the member initialisers.
Fresh == [vectors_ |-> <<>>, num_vectors_ |-> 0, dim_ |-> 0, metric_type_ |-> "L2"]

\* The members of the instance.
Index == [vectors_ |-> vectors_, num_vectors_ |-> num_vectors_, dim_ |-> dim_,
          metric_type_ |-> metric_type_]

\* The result of an index operation: its status, the value it returns, and
\* the members afterwards.
IResult(status, value, x) == [status |-> status, value |-> value, x |-> x]

\* A dataset: rows x dim floats, row after row.
DataSets(maxRows) ==
    UNION {[rows : {r}, dim : {d}, tensor : [1..(r * d) -> Floats]] :
              r \in 0..maxRows, d \in Dims}

\* A resize that grows the buffer and never shrinks it.
ResizeGrowOnly(v, n) ==
    [i \in 1..(IF n > Len(v) THEN n ELSE Len(v)) |-> IF i <= Len(v) THEN v[i] ELSE 0]

\* std::vector::resize(n): the elements kept, new ones value-initialised.
Resize(v, n) == [i \in 1..n |-> IF i <= Len(v) THEN v[i] ELSE 0]

\* std::memcpy(dst, src, n floats); a source shorter than n is read past its
\* end, where anything (g) is found.
Memcpy(dst, src, n, g) ==
    [i \in DOMAIN dst |-> IF i > n THEN dst[i]
                          ELSE IF i <= Len(src) THEN src[i] ELSE g]

\* vectors_.data()[pos - 1]; a position past the buffer reads anything (g).
At(x, pos, g) == IF pos \in 1..Len(x.vectors_) THEN x.vectors_[pos] ELSE g

\* The call reads stored row i past the end of the buffer.
PastEnd(x, i) == (i + 1) * x.dim_ > Len(x.vectors_)

\* SimpleVectorIndex::HasRawData: the one declaration of the name in the
\* class, which answers true whatever it is asked about.
HasRawData(dataset) == TRUE

\* The dataset has no tensor to read rows * dim floats from (GetTensor() is
\* null).
NoRawData(dataset) == Len(dataset.tensor) < dataset.rows * dataset.dim

\* SimpleVectorIndex::Build(dataset, cfg); g: what a read past the end of
\* the tensor finds.
BuildReading(x, dataset, cfg, g) ==
    IF ~HasRawData(dataset)
        THEN IResult("invalid_args", <<>>, x)
    ELSE IF dataset.dim # cfg.dim
        THEN IResult("invalid_args", <<>>, x)
        ELSE LET n == dataset.rows * dataset.dim
             IN  IResult("success", <<>>,
                         [vectors_ |-> Memcpy(Resize(x.vectors_, n), dataset.tensor, n, g),
                          num_vectors_ |-> dataset.rows,
                          dim_ |-> dataset.dim,
                          metric_type_ |-> cfg.metric_type])

\* Build of a dataset that has its tensor.
BuildOn(x, dataset, cfg) == BuildReading(x, dataset, cfg, 0)

\* The distance loop of Search for query row q and stored row i, from
\* component d on (all 0-based), dist accumulated so far.
RECURSIVE Accumulate(_, _, _, _, _, _, _)
Accumulate(x, queries, q, i, d, dist, g) ==
    IF d >= x.dim_ THEN dist
    ELSE LET qd == IF q * x.dim_ + d + 1 \in DOMAIN queries
                       THEN queries[q * x.dim_ + d + 1] ELSE g
             vd == At(x, i * x.dim_ + d + 1, g)
         IN  Accumulate(x, queries, q, i, d + 1,
                        IF x.metric_type_ = "L2" THEN dist + (qd - vd) * (qd - vd)
                                                 ELSE dist - qd * vd,
                        g)

\* dist_idx with the bitset not consulted: a pair per stored row.
RECURSIVE DistIdxUnfiltered(_, _, _, _, _, _)
DistIdxUnfiltered(x, queries, q, bitset, i, g) ==
    IF i >= x.num_vectors_ THEN <<>>
    ELSE <<<<Accumulate(x, queries, q, i, 0, 0, g), i>>>>
         \o DistIdxUnfiltered(x, queries, q, bitset, i + 1, g)

\* dist_idx of query row q: a (distance, index) pair per stored row that the
\* bitset does not mark, in index order, from row i on.
RECURSIVE DistIdx(_, _, _, _, _, _)
DistIdx(x, queries, q, bitset, i, g) ==
    IF i >= x.num_vectors_ THEN <<>>
    ELSE IF i \in bitset THEN DistIdx(x, queries, q, bitset, i + 1, g)
    ELSE <<<<Accumulate(x, queries, q, i, 0, 0, g), i>>>>
         \o DistIdx(x, queries, q, bitset, i + 1, g)

\* operator< of std::pair<float, int64_t>.
PairLess(a, b) == a[1] < b[1] \/ (a[1] = b[1] /\ a[2] < b[2])

\* std::partial_sort(first, first + n, last): the n smallest pairs, in order.
RECURSIVE PartialSort(_, _)
PartialSort(s, n) ==
    IF n = 0 THEN <<>>
    ELSE LET m == CHOOSE j \in DOMAIN s : \A l \in DOMAIN s : l = j \/ PairLess(s[j], s[l])
             rest == [l \in 1..(Len(s) - 1) |-> IF l < m THEN s[l] ELSE s[l + 1]]
         IN  <<s[m]>> \o PartialSort(rest, n - 1)

Min(a, b) == IF a < b THEN a ELSE b

\* The result slots with the shortfall left as allocated: zero.
SearchRowZeroFill(x, queries, q, k, bitset, g) ==
    LET dist_idx == DistIdx(x, queries, q, bitset, 0, g)
        valid_k == Min(k, Len(dist_idx))
        top == PartialSort(dist_idx, valid_k)
    IN  [ids |-> [j \in 1..k |-> IF j <= valid_k THEN top[j][2] ELSE 0],
         distances |-> [j \in 1..k |-> IF j <= valid_k THEN top[j][1] ELSE 0]]

\* The k result slots of query row q: the valid_k nearest, then -1 and the
\* maximum float.
SearchRow(x, queries, q, k, bitset, g) ==
    LET dist_idx == DistIdx(x, queries, q, bitset, 0, g)
        valid_k == Min(k, Len(dist_idx))
        top == PartialSort(dist_idx, valid_k)
    IN  [ids |-> [j \in 1..k |-> IF j <= valid_k THEN top[j][2] ELSE -1],
         distances |-> [j \in 1..k |-> IF j <= valid_k THEN top[j][1] ELSE FloatMax]]

\* The result buffers of Search: row q in slots q * k .. q * k + k - 1.
RECURSIVE SearchRows(_, _, _, _, _, _, _)
SearchRows(x, queries, nq, q, k, bitset, g) ==
    IF q >= nq THEN [ids |-> <<>>, distances |-> <<>>]
    ELSE LET row == SearchRow(x, queries, q, k, bitset, g)
             more == SearchRows(x, queries, nq, q + 1, k, bitset, g)
         IN  [ids |-> row.ids \o more.ids, distances |-> row.distances \o more.distances]

\* Search with no case made of the index that holds no rows.
SearchOnWithoutEmptyCase(x, dataset, k, bitset, g) ==
    IF dataset.dim # x.dim_
        THEN IResult("invalid_args", <<>>, x)
    ELSE LET r == SearchRows(x, dataset.tensor, dataset.rows, 0, k, bitset, g)
         IN  IResult("success", [rows |-> dataset.rows, dim |-> k,
                                 ids |-> r.ids, distances |-> r.distances], x)

\* SimpleVectorIndex::Search(dataset, cfg, bitset); k is cfg.k, bitset the set
\* of the rows it marks.
SearchOn(x, dataset, k, bitset, g) ==
    IF dataset.dim # x.dim_
        THEN IResult("invalid_args", <<>>, x)
    ELSE IF x.num_vectors_ = 0
        THEN IResult("success", [rows |-> dataset.rows, dim |-> 0,
                                 ids |-> <<>>, distances |-> <<>>], x)
    ELSE LET r == SearchRows(x, dataset.tensor, dataset.rows, 0, k, bitset, g)
         IN  IResult("success", [rows |-> dataset.rows, dim |-> k,
                                 ids |-> r.ids, distances |-> r.distances], x)

\* The rows Search reads.
SearchReads(x, dataset, bitset) ==
    IF dataset.dim # x.dim_ \/ dataset.rows = 0 THEN {}
    ELSE {i \in 0..(x.num_vectors_ - 1) : i \notin bitset}

\* SimpleVectorIndex::RangeSearch.
RangeSearchOn(x) == IResult("not_implemented", <<>>, x)

\* The loop of GetVectorByIds over ids from position i on; out: the rows
\* copied so far.
RECURSIVE CopyRows(_, _, _, _, _)
CopyRows(x, ids, i, out, g) ==
    IF i > Len(ids) THEN IResult("success", [rows |-> Len(ids), dim |-> x.dim_, tensor |-> out], x)
    ELSE IF ids[i] < 0 \/ ids[i] >= x.num_vectors_
        THEN IResult("invalid_args", [id |-> ids[i], count |-> x.num_vectors_], x)
    ELSE CopyRows(x, ids, i + 1,
                  out \o [d \in 1..x.dim_ |-> At(x, ids[i] * x.dim_ + d, g)], g)

\* SimpleVectorIndex::GetVectorByIds(dataset); ids: the ids of the dataset.
GetVectorByIdsOn(x, ids, g) == CopyRows(x, ids, 1, <<>>, g)

\* The rows GetVectorByIds reads: those of the ids before the first that is
\* out of range.
GetVectorReads(x, ids) ==
    {ids[i] : i \in {j \in DOMAIN ids :
                        \A l \in 1..j : ids[l] >= 0 /\ ids[l] < x.num_vectors_}}

\* SimpleVectorIndex::Dim, Size, Count.
DimOn(x) == x.dim_

SizeOn(x) == x.num_vectors_

CountOn(x) == x.num_vectors_

\* ------------------------------------------- Serialize and Deserialize
\* The numbers a metadata blob can hold.
Numerals == 0..(MaxRows + Cardinality(Dims))

\* The count written where the dimension belongs, and the dimension where
\* the count belongs.
MetaDumpSwapped(num_vectors, dim, metric_type) ==
    [num_vectors |-> ToString(dim), dim |-> ToString(num_vectors),
     metric_type |-> metric_type]

\* Json::dump of the metadata: each member as text.
MetaDump(num_vectors, dim, metric_type) ==
    [num_vectors |-> ToString(num_vectors), dim |-> ToString(dim),
     metric_type |-> metric_type]

\* Json::parse of a number.
ParseInt(text) == CHOOSE n \in Numerals : ToString(n) = text

\* BinarySet::GetByName.
HasBlob(binset, name) == name \in DOMAIN binset

\* Serialize that appends the vector blob whatever the count.
SerializeOnAlwaysVectors(x, g) ==
    LET n == x.num_vectors_ * x.dim_
    IN  IResult("success",
                [meta |-> MetaDump(x.num_vectors_, x.dim_, x.metric_type_),
                 vectors |-> [data |-> [i \in 1..n |-> At(x, i, g)],
                              size |-> n * SizeofFloat]],
                x)

\* SimpleVectorIndex::Serialize(binset) on an empty binary set: the value is
\* the binary set afterwards, a blob per name.
SerializeOn(x, g) ==
    LET n == x.num_vectors_ * x.dim_
        meta == MetaDump(x.num_vectors_, x.dim_, x.metric_type_)
    IN  IResult("success",
                IF x.num_vectors_ > 0
                    THEN [meta |-> meta,
                          vectors |-> [data |-> [i \in 1..n |-> At(x, i, g)],
                                       size |-> n * SizeofFloat]]
                    ELSE [meta |-> meta],
                x)

\* Deserialize with a missing vector blob passed over.
DeserializeOnLenient(x, binset, g) ==
    IF ~HasBlob(binset, "meta")
        THEN IResult("invalid_args", <<>>, x)
        ELSE LET n == ParseInt(binset.meta.num_vectors)
                 d == ParseInt(binset.meta.dim)
                 x1 == [x EXCEPT !.num_vectors_ = n, !.dim_ = d,
                                 !.metric_type_ = binset.meta.metric_type]
             IN  IF n > 0 /\ HasBlob(binset, "vectors")
                     THEN IResult("success", <<>>,
                                  [x1 EXCEPT !.vectors_ =
                                      Memcpy(Resize(x.vectors_, n * d),
                                             binset.vectors.data, n * d, g)])
                     ELSE IResult("success", <<>>, x1)

\* SimpleVectorIndex::Deserialize(binset, config).
DeserializeOn(x, binset, g) ==
    IF ~HasBlob(binset, "meta")
        THEN IResult("invalid_args", <<>>, x)
        ELSE LET n == ParseInt(binset.meta.num_vectors)
                 d == ParseInt(binset.meta.dim)
                 x1 == [x EXCEPT !.num_vectors_ = n, !.dim_ = d,
                                 !.metric_type_ = binset.meta.metric_type]
             IN  IF n > 0
                     THEN IF ~HasBlob(binset, "vectors")
                              THEN IResult("invalid_args", <<>>, x1)
                              ELSE IResult("success", <<>>,
                                           [x1 EXCEPT !.vectors_ =
                                               Memcpy(Resize(x.vectors_, n * d),
                                                      binset.vectors.data, n * d, g)])
                     ELSE IResult("success", <<>>, x1)

\* Deserialize copies more floats than the vector blob holds.
BlobPastEnd(binset) ==
    /\ HasBlob(binset, "meta") /\ HasBlob(binset, "vectors")
    /\ ParseInt(binset.meta.num_vectors) * ParseInt(binset.meta.dim)
           > Len(binset.vectors.data)

\* ------------------------------------------------ inputs of the index
\* The datasets of one row or more whose tensor pointer is null.
Tensorless(maxRows) ==
    {[rows |-> r, dim |-> d, tensor |-> <<>>] : r \in 1..maxRows, d \in Dims}

BuildInputs ==
    {[dataset |-> ds, cfg |-> [dim |-> d, metric_type |-> m]] :
        ds \in DataSets(MaxRows) \cup Tensorless(MaxRows), d \in Dims, m \in Metrics}

\* k of the search configuration: up to one more than the rows stored.
Ks == 1..(MaxRows + 1)

SearchInputs ==
    {[dataset |-> ds, k |-> k, bitset |-> b] :
        ds \in {q \in DataSets(MaxQueries) : q.rows > 0}, k \in Ks,
        b \in SUBSET (0..(MaxRows - 1))}

\* The id lists of GetVectorByIds requests.
IdLists == UNION {[1..n -> -1..MaxRows] : n \in 0..MaxRows}

\* The indexes a Build on a new instance gives.
BuiltIndexes ==
    {BuildOn(Fresh, in.dataset, in.cfg).x :
        in \in {b \in BuildInputs : b.dataset.dim = b.cfg.dim /\ ~NoRawData(b.dataset)}}

Serialized == {SerializeOn(x, 0).value : x \in BuiltIndexes}

WithoutBlob(binset, name) == [n \in (DOMAIN binset) \ {name} |-> binset[n]]

\* The floats the metadata of a binary set declares: count x dimension.
Declared(binset) == ParseInt(binset.meta.num_vectors) * ParseInt(binset.meta.dim)

\* Binary sets whose vector blob is not of the size the metadata declares:
\* the metadata of one written set with the vector blob (of ones) of
\* another, shorter or longer.
Mismatched ==
    {[meta |-> a.meta, vectors |-> b.vectors] :
        <<a, b>> \in {ab \in Serialized \X Serialized :
                        /\ HasBlob(ab[1], "vectors") /\ HasBlob(ab[2], "vectors")
                        /\ \A i \in DOMAIN ab[2].vectors.data : ab[2].vectors.data[i] = 1
                        /\ Declared(ab[1]) * SizeofFloat # ab[2].vectors.size}}

\* The binary sets handed to Deserialize: those Serialize writes, those
\* with the vector blob or the metadata blob missing, and those whose
\* vector blob has another size than the metadata declares.
BinarySets ==
    Serialized
    \cup {WithoutBlob(b, "vectors") : b \in Serialized}
    \cup {WithoutBlob(b, "meta") : b \in Serialized}
    \cup Mismatched

\* ------------------------------------------------ the index operations
NoCall == [op |-> "none", input |-> <<>>, status |-> "", value |-> <<>>]

IIdle == [pc |-> "idle", op |-> "", input |-> <<>>, dim |-> 0, used_dim |-> 0,
          status |-> "", value |-> <<>>, ops |-> 0]

\* The instance as constructed, no call made, no thread inside.
InitIndex ==
    /\ vectors_ = Fresh.vectors_
    /\ num_vectors_ = Fresh.num_vectors_
    /\ dim_ = Fresh.dim_
    /\ metric_type_ = Fresh.metric_type_
    /\ mutex_ = 0
    /\ built = FALSE
    /\ ret = NoCall
    /\ ithr = [t \in Threads |-> IIdle]

\* An index operation returns r to the caller.
IndexReturn(op, input, r) ==
    /\ ret' = [op |-> op, input |-> input, status |-> r.status, value |-> r.value]
    /\ vectors_' = r.x.vectors_
    /\ num_vectors_' = r.x.num_vectors_
    /\ dim_' = r.x.dim_
    /\ metric_type_' = r.x.metric_type_
    /\ built' = (built \/ (op \in {"Build", "Deserialize"} /\ r.status = "success"))
    /\ UNCHANGED <<running, mutex_, ithr>>
    /\ UNCHANGED pluginVars

\* The process ends inside an index operation.
IndexCrash(op, input) ==
    /\ ret' = [op |-> op, input |-> input, status |-> "crashed", value |-> <<>>]
    /\ running' = FALSE
    /\ UNCHANGED <<vectors_, num_vectors_, dim_, metric_type_, built, mutex_, ithr>>
    /\ UNCHANGED pluginVars

\* An index operation called while the caller holds no result; past_end: it
\* reads past the end of a buffer, which crashes or finds some float there.
IndexCall(op, input, past_end, R(_)) ==
    IF past_end
        THEN \/ IndexCrash(op, input)
             \/ \E g \in Floats : IndexReturn(op, input, R(g))
        ELSE IndexReturn(op, input, R(0))

\* The process is alive and the caller holds no result.
Ready == running /\ ret.op = "none"

Build(in) ==
    /\ Ready
    /\ IndexCall("Build", in,
              HasRawData(in.dataset) /\ in.dataset.dim = in.cfg.dim /\ NoRawData(in.dataset),
              LAMBDA g : BuildReading(Index, in.dataset, in.cfg, g))

Search(in) ==
    /\ Ready
    /\ IndexCall("Search", in,
              \E i \in SearchReads(Index, in.dataset, in.bitset) : PastEnd(Index, i),
              LAMBDA g : SearchOn(Index, in.dataset, in.k, in.bitset, g))

RangeSearch(in) ==
    /\ Ready
    /\ IndexCall("RangeSearch", in, FALSE, LAMBDA g : RangeSearchOn(Index))

GetVectorByIds(ids) ==
    /\ Ready
    /\ IndexCall("GetVectorByIds", ids,
              \E i \in GetVectorReads(Index, ids) : PastEnd(Index, i),
              LAMBDA g : GetVectorByIdsOn(Index, ids, g))

Serialize ==
    /\ Ready
    /\ IndexCall("Serialize", <<>>,
              num_vectors_ > 0 /\ num_vectors_ * dim_ > Len(vectors_),
              LAMBDA g : SerializeOn(Index, g))

Deserialize(binset) ==
    /\ Ready
    /\ IndexCall("Deserialize", binset, BlobPastEnd(binset),
              LAMBDA g : DeserializeOn(Index, binset, g))

\* The caller drops the result it holds.
Release ==
    /\ running /\ ret.op # "none"
    /\ ret' = NoCall
    /\ UNCHANGED <<vectors_, num_vectors_, dim_, metric_type_, built, mutex_, ithr, running>>
    /\ UNCHANGED pluginVars

\* The inputs a caller can make a call with: none while it holds a result.
Callable(inputs) == IF Ready THEN inputs ELSE {}

NextIndex ==
    \/ \E in \in Callable(BuildInputs) : Build(in)
    \/ \E in \in Callable(SearchInputs) : Search(in)
    \/ \E in \in Callable({s \in SearchInputs : s.k = 1 /\ s.bitset = {}}) : RangeSearch(in)
    \/ \E ids \in Callable(IdLists) : GetVectorByIds(ids)
    \/ Serialize
    \/ \E binset \in Callable(BinarySets) : Deserialize(binset)
    \/ Release

\* ------------------------------- the index operations, thread by thread
\* The calls threads make on the one instance.
ConcBuilds ==
    {[dataset |-> [rows |-> 1, dim |-> d, tensor |-> [i \in 1..d |-> 1]],
      cfg |-> [dim |-> c, metric_type |-> "L2"]] : d \in Dims, c \in Dims}

ConcSearches ==
    {[dataset |-> [rows |-> 1, dim |-> d, tensor |-> [i \in 1..d |-> 0]],
      k |-> 1, bitset |-> {}] : d \in Dims}

ConcBinarySets ==
    LET written == {SerializeOn(BuildOn(Fresh, b.dataset, b.cfg).x, 0).value :
                       b \in {c \in ConcBuilds : c.dataset.dim = c.cfg.dim}}
    IN  written \cup {WithoutBlob(b, "vectors") : b \in written}

ConcCalls ==
    {[op |-> "Build", input |-> b] : b \in ConcBuilds}
    \cup {[op |-> "Search", input |-> s] : s \in ConcSearches}
    \cup {[op |-> "Deserialize", input |-> b] : b \in ConcBinarySets}
    \cup {[op |-> "GetVectorByIds", input |-> <<0>>]}
    \cup {[op |-> o, input |-> <<>>] : o \in {"Serialize", "Dim", "Size", "Count"}}

\* What a step of a thread leaves alone besides the members it names.
IndexConcFrame == UNCHANGED ret /\ UNCHANGED pluginVars

Members == <<vectors_, num_vectors_, dim_, metric_type_, built>>

\* Thread t is between its lock_guard and the return that ends it.
Inside(t) == ithr[t].pc \in {"locked", "copy", "vectors", "unlock"}

\* Thread t calls an operation: Build and Search start with a check made
\* before the lock_guard, the others with the lock_guard.
CallIndex(t, c) ==
    /\ running /\ ithr[t].pc = "idle" /\ ithr[t].ops < MaxOps
    /\ ithr' = [ithr EXCEPT ![t] =
                   [IIdle EXCEPT !.pc = IF c.op \in {"Build", "Search"} THEN "check" ELSE "lock",
                                 !.op = c.op, !.input = c.input, !.ops = ithr[t].ops + 1]]
    /\ UNCHANGED <<running, mutex_>> /\ UNCHANGED Members /\ IndexConcFrame

\* Build: the comparison of the dataset's dimension with the configured one.
BuildCheck(t) ==
    /\ running /\ ithr[t].pc = "check" /\ ithr[t].op = "Build"
    /\ ithr' = [ithr EXCEPT ![t] =
                   IF ithr[t].input.dataset.dim # ithr[t].input.cfg.dim
                       THEN [@ EXCEPT !.pc = "idle", !.status = "invalid_args"]
                       ELSE [@ EXCEPT !.pc = "lock"]]
    /\ UNCHANGED <<running, mutex_>> /\ UNCHANGED Members /\ IndexConcFrame

\* Search: the comparison of the query's dimension with dim_, read before
\* the lock_guard.
SearchCheck(t) ==
    /\ running /\ ithr[t].pc = "check" /\ ithr[t].op = "Search"
    /\ ithr' = [ithr EXCEPT ![t] =
                   IF ithr[t].input.dataset.dim # dim_
                       THEN [@ EXCEPT !.pc = "idle", !.dim = dim_, !.status = "invalid_args"]
                       ELSE [@ EXCEPT !.pc = "lock", !.dim = dim_]]
    /\ UNCHANGED <<running, mutex_>> /\ UNCHANGED Members /\ IndexConcFrame

\* std::lock_guard<std::mutex> lock(mutex_).
Lock(t) ==
    /\ running /\ ithr[t].pc = "lock" /\ mutex_ = 0
    /\ mutex_' = t
    /\ ithr' = [ithr EXCEPT ![t].pc = "locked"]
    /\ UNCHANGED running /\ UNCHANGED Members /\ IndexConcFrame

\* Build: dim_ and metric_type_ are stored.
BuildStore(t) ==
    /\ running /\ ithr[t].pc = "locked" /\ ithr[t].op = "Build"
    /\ dim_' = ithr[t].input.dataset.dim
    /\ metric_type_' = ithr[t].input.cfg.metric_type
    /\ ithr' = [ithr EXCEPT ![t].pc = "copy"]
    /\ UNCHANGED <<running, mutex_, vectors_, num_vectors_, built>> /\ IndexConcFrame

\* Build: the rows are copied and counted.
BuildCopy(t) ==
    /\ running /\ ithr[t].pc = "copy"
    /\ LET in == ithr[t].input
           n == in.dataset.rows * in.dataset.dim
       IN  /\ vectors_' = Memcpy(Resize(vectors_, n), in.dataset.tensor, n, 0)
           /\ num_vectors_' = in.dataset.rows
    /\ built' = TRUE
    /\ ithr' = [ithr EXCEPT ![t].pc = "unlock", ![t].status = "success"]
    /\ UNCHANGED <<running, mutex_, dim_, metric_type_>> /\ IndexConcFrame

\* The process ends while thread t is inside an operation.
CrashInside(t) ==
    /\ running' = FALSE
    /\ ithr' = [ithr EXCEPT ![t].status = "crashed"]
    /\ UNCHANGED mutex_ /\ UNCHANGED Members /\ IndexConcFrame

\* Thread t has the result r of the body of its operation.
BodyDone(t, r) ==
    /\ ithr' = [ithr EXCEPT ![t].pc = "unlock", ![t].status = r.status, ![t].value = r.value]
    /\ UNCHANGED <<running, mutex_>> /\ UNCHANGED Members /\ IndexConcFrame

\* Search under the lock: the empty result, or the rows computed with dim_
\* as it is now; a query of fewer than dim_ components is read past its end.
SearchCompute(t) ==
    /\ running /\ ithr[t].pc = "locked" /\ ithr[t].op = "Search"
    /\ LET in == ithr[t].input
           r(g) == SearchOn([Index EXCEPT !.dim_ = in.dataset.dim],
                            in.dataset, in.k, in.bitset, g)
           rows(g) == SearchRows(Index, in.dataset.tensor, in.dataset.rows, 0,
                                 in.k, in.bitset, g)
           past_end == \/ dim_ > in.dataset.dim
                       \/ \E i \in 0..(num_vectors_ - 1) : PastEnd(Index, i)
       IN  IF num_vectors_ = 0
               THEN BodyDone(t, r(0))
               ELSE \/ past_end /\ CrashInside(t)
                    \/ \E g \in (IF past_end THEN Floats ELSE {0}) :
                          /\ ithr' = [ithr EXCEPT ![t].pc = "unlock",
                                                    ![t].status = "success",
                                                    ![t].used_dim = dim_,
                                                    ![t].value =
                                                        [rows |-> in.dataset.rows,
                                                         dim |-> in.k,
                                                         ids |-> rows(g).ids,
                                                         distances |-> rows(g).distances]]
                          /\ UNCHANGED <<running, mutex_>> /\ UNCHANGED Members
                          /\ IndexConcFrame

\* GetVectorByIds under the lock.
GetVectorCopy(t) ==
    /\ running /\ ithr[t].pc = "locked" /\ ithr[t].op = "GetVectorByIds"
    /\ LET past_end == \E i \in GetVectorReads(Index, ithr[t].input) : PastEnd(Index, i)
       IN  \/ past_end /\ CrashInside(t)
           \/ \E g \in (IF past_end THEN Floats ELSE {0}) :
                 BodyDone(t, GetVectorByIdsOn(Index, ithr[t].input, g))

\* Serialize under the lock.
SerializeWrite(t) ==
    /\ running /\ ithr[t].pc = "locked" /\ ithr[t].op = "Serialize"
    /\ LET past_end == num_vectors_ > 0 /\ num_vectors_ * dim_ > Len(vectors_)
       IN  \/ past_end /\ CrashInside(t)
           \/ \E g \in (IF past_end THEN Floats ELSE {0}) :
                 BodyDone(t, SerializeOn(Index, g))

\* Dim, Size, Count under the lock.
ReadMember(t) ==
    /\ running /\ ithr[t].pc = "locked" /\ ithr[t].op \in {"Dim", "Size", "Count"}
    /\ BodyDone(t, [status |-> "success",
                    value |-> IF ithr[t].op = "Dim" THEN DimOn(Index) ELSE CountOn(Index)])

\* Deserialize: the metadata blob is looked up and the three members are
\* assigned from it.
DeserializeMeta(t) ==
    /\ running /\ ithr[t].pc = "locked" /\ ithr[t].op = "Deserialize"
    /\ LET binset == ithr[t].input
       IN  IF ~HasBlob(binset, "meta")
               THEN BodyDone(t, [status |-> "invalid_args", value |-> <<>>])
               ELSE /\ num_vectors_' = ParseInt(binset.meta.num_vectors)
                    /\ dim_' = ParseInt(binset.meta.dim)
                    /\ metric_type_' = binset.meta.metric_type
                    /\ ithr' = [ithr EXCEPT ![t].pc = "vectors"]
                    /\ UNCHANGED <<running, mutex_, vectors_, built>> /\ IndexConcFrame

\* Deserialize: the vector blob is looked up and copied.
DeserializeVectors(t) ==
    /\ running /\ ithr[t].pc = "vectors"
    /\ LET binset == ithr[t].input
           n == num_vectors_ * dim_
       IN  IF num_vectors_ > 0 /\ ~HasBlob(binset, "vectors")
               THEN BodyDone(t, [status |-> "invalid_args", value |-> <<>>])
               ELSE /\ vectors_' = IF num_vectors_ > 0
                                       THEN Memcpy(Resize(vectors_, n), binset.vectors.data, n, 0)
                                       ELSE vectors_
                    /\ built' = TRUE
                    /\ ithr' = [ithr EXCEPT ![t].pc = "unlock", ![t].status = "success"]
                    /\ UNCHANGED <<running, mutex_, num_vectors_, dim_, metric_type_>>
                    /\ IndexConcFrame

\* A return that leaves mutex_ held.
UnlockLeavingHeld(t) ==
    /\ running /\ ithr[t].pc = "unlock" /\ mutex_ = t
    /\ ithr' = [ithr EXCEPT ![t].pc = "idle"]
    /\ UNCHANGED <<running, mutex_>> /\ UNCHANGED Members /\ IndexConcFrame

\* The return of a locked operation: the lock_guard releases mutex_.
Unlock(t) ==
    /\ running /\ ithr[t].pc = "unlock" /\ mutex_ = t
    /\ mutex_' = 0
    /\ ithr' = [ithr EXCEPT ![t].pc = "idle"]
    /\ UNCHANGED running /\ UNCHANGED Members /\ IndexConcFrame

NextIndexConc ==
    \E t \in Threads :
        \/ \E c \in ConcCalls : CallIndex(t, c)
        \/ BuildCheck(t)
        \/ SearchCheck(t)
        \/ Lock(t)
        \/ BuildStore(t)
        \/ BuildCopy(t)
        \/ SearchCompute(t)
        \/ GetVectorCopy(t)
        \/ SerializeWrite(t)
        \/ ReadMember(t)
        \/ DeserializeMeta(t)
        \/ DeserializeVectors(t)
        \/ Unlock(t)

\* ------------------------------------------------------------- actions
\* Calls whose behaviour is undefined whatever the state of the library.
UBCalls == {"delete lifecycle", "GetFeatures on null", "CreateIndex through dangling factory"}

\* Index of the first call of cs with undefined behaviour, 0 when there is
\* none: module code of a library that is no longer mapped, delete of the
\* lifecycle object (which the module keeps in static storage), a call on a
\* null index, a call through a pointer to a destroyed factory.
RECURSIVE FirstUB(_, _, _)
FirstUB(cs, i, refs) ==
    IF i > Len(cs) THEN 0
    ELSE IF \/ (ModuleCode(cs[i]) /\ refs[cs[i][2]] = 0)
            \/ cs[i][1] \in UBCalls
        THEN i
    ELSE FirstUB(cs, i + 1, ApplyDl(refs, <<cs[i]>>))

\* The constructors whose captured factory was destroyed by the calls cs
\* point to a dead object from then on.
MarkDangling(fm, cs) ==
    [n \in DOMAIN fm |->
        IF \E i \in DOMAIN cs : cs[i][1] = "delete factory" /\ cs[i][2] = fm[n].factory
            THEN [fm[n] EXCEPT !.dangling = TRUE]
            ELSE fm[n]]

OnLoader(r) == BResult(r.status, r.calls, r.lp, r.names, registered_plugins_, func_mapping_)

Idle == [pc |-> "idle", op |-> "", path |-> 0, name |-> "", status |-> "", ops |-> 0]

TypeOK ==
    /\ DOMAIN loaded_plugins_ \subseteq Paths
    /\ DOMAIN plugin_names_ \subseteq Names
    /\ dl_refs \in [Paths -> Nat]
    /\ DOMAIN registered_plugins_ \subseteq Names
    /\ DOMAIN func_mapping_ \subseteq {FullName(n) : n \in Names}
    /\ running \in BOOLEAN

Init ==
    /\ loaded_plugins_ = EmptyMap
    /\ plugin_names_ = EmptyMap
    /\ dl_refs = [p \in Paths |-> 0]
    /\ registered_plugins_ = EmptyMap
    /\ func_mapping_ = EmptyMap
    /\ disk = <<>>
    /\ heap = [p \in Paths |-> 0]
    /\ thr = [t \in Threads |-> Idle]
    /\ net = [p \in Paths |-> 0]
    /\ calls = <<>>
    /\ last = [op |-> "init", arg |-> "", status |-> ""]
    /\ running = TRUE
    /\ InitIndex

\* An operation ends: it returns res.status, or the process ends at the
\* first call with undefined behaviour, or on an exception that escaped.
Complete(op, arg, res) ==
    LET ub == FirstUB(res.calls, 1, dl_refs)
    IN  /\ \E outcome \in (IF ub = 0 THEN {"returns"} ELSE {"returns", "crash"}) :
            IF outcome = "crash"
                THEN /\ calls' = SubSeq(res.calls, 1, ub)
                     /\ last' = [op |-> op, arg |-> arg, status |-> "crashed"]
                     /\ running' = FALSE
                     /\ dl_refs' = ApplyDl(dl_refs, calls')
                     /\ heap' = ApplyHeap(heap, calls')
                     /\ UNCHANGED <<loaded_plugins_, plugin_names_, registered_plugins_,
                                    func_mapping_>>
                ELSE /\ calls' = res.calls
                     /\ last' = [op |-> op, arg |-> arg, status |-> res.status]
                     /\ running' = (res.status # "escaped")
                     /\ dl_refs' = ApplyDl(dl_refs, calls')
                     /\ heap' = ApplyHeap(heap, calls')
                     /\ loaded_plugins_' = res.lp
                     /\ plugin_names_' = res.names
                     /\ registered_plugins_' = res.reg
                     /\ func_mapping_' = MarkDangling(res.fm, calls')
        /\ UNCHANGED <<disk, thr, net>>
        /\ UNCHANGED indexVars

LoadPlugin(path, m) ==
    /\ running
    /\ Complete("LoadPlugin", ToString(path),
                OnLoader(LoadPluginOn(loaded_plugins_, plugin_names_, path, m)))

UnloadPlugin(name, hook) ==
    /\ running
    /\ Complete("UnloadPlugin", name,
                OnLoader(UnloadPluginOn(loaded_plugins_, plugin_names_, name, hook)))

UnloadAll(order, hook) ==
    /\ running
    /\ Complete("UnloadAll", "",
                OnLoader(UnloadAllOn(loaded_plugins_, plugin_names_, order, hook)))

LoadPluginsFromDirectory(exists) ==
    /\ running
    /\ Complete("LoadPluginsFromDirectory", IF exists THEN "plugins" ELSE "missing",
                OnLoader(LoadPluginsFromDirectoryOn(loaded_plugins_, plugin_names_, exists, disk)))

RegisterPlugin(name, index) ==
    /\ running
    /\ Complete("RegisterPlugin", name,
                RegisterPluginOn(loaded_plugins_, plugin_names_, registered_plugins_,
                                 func_mapping_, name, index))

UnregisterPlugin(name) ==
    /\ running
    /\ Complete("UnregisterPlugin", name,
                UnregisterPluginOn(loaded_plugins_, plugin_names_, registered_plugins_,
                                   func_mapping_, name))

LoadAndRegisterPlugins(exists, order, index) ==
    /\ running
    /\ Complete("LoadAndRegisterPlugins", IF exists THEN "plugins" ELSE "missing",
                LoadAndRegisterPluginsOn(loaded_plugins_, plugin_names_, registered_plugins_,
                                         func_mapping_, exists, disk, order, index))

InitializePlugins(explicit, exists, order, index) ==
    /\ running
    /\ Complete("InitializePlugins",
                IF ~explicit THEN "" ELSE IF exists THEN "plugins" ELSE "missing",
                InitializePluginsOn(loaded_plugins_, plugin_names_, registered_plugins_,
                                    func_mapping_, explicit, exists, disk, order, index))

Create(full_name, index) ==
    /\ running
    /\ Complete("Create", full_name,
                CreateOn(loaded_plugins_, plugin_names_, registered_plugins_, func_mapping_,
                         full_name, index))

Hooks == {"ok", "fail"}

Next ==
    \/ \E path \in Paths, m \in Binaries : LoadPlugin(path, m)
    \/ \E name \in Names, hook \in Hooks : UnloadPlugin(name, hook)
    \/ \E order \in Perms(DOMAIN loaded_plugins_), hook \in Hooks : UnloadAll(order, hook)

Spec == Init /\ [][Next]_vars

\* ----------------------------------------------- loader and bridge on a disk
\* The binary dlopen finds at path on the disk.
DiskBinary(path) ==
    IF \E i \in DOMAIN disk : disk[i].path = path
        THEN disk[CHOOSE i \in DOMAIN disk : disk[i].path = path].binary
        ELSE NotOpenable

IndexResults == {"index", "null"}

InitBridge ==
    /\ loaded_plugins_ = EmptyMap
    /\ plugin_names_ = EmptyMap
    /\ dl_refs = [p \in Paths |-> 0]
    /\ registered_plugins_ = EmptyMap
    /\ func_mapping_ = EmptyMap
    /\ disk \in Directories
    /\ heap = [p \in Paths |-> 0]
    /\ thr = [t \in Threads |-> Idle]
    /\ net = [p \in Paths |-> 0]
    /\ calls = <<>>
    /\ last = [op |-> "init", arg |-> "", status |-> ""]
    /\ running = TRUE
    /\ InitIndex

NextBridge ==
    \/ \E path \in Paths : LoadPlugin(path, DiskBinary(path))
    \/ \E name \in Names : UnloadPlugin(name, "ok")
    \/ \E exists \in BOOLEAN : LoadPluginsFromDirectory(exists)
    \/ \E name \in Names, index \in [Paths -> IndexResults] : RegisterPlugin(name, index)
    \/ \E name \in Names : UnregisterPlugin(name)
    \/ \E exists \in BOOLEAN, order \in Perms(Paths), index \in [Paths -> IndexResults] :
           LoadAndRegisterPlugins(exists, order, index)
    \/ \E explicit, exists \in BOOLEAN, order \in Perms(Paths),
            index \in [Paths -> IndexResults] :
           InitializePlugins(explicit, exists, order, index)
    \/ \E name \in Names, index \in IndexResults : Create(FullName(name), index)

SpecBridge == InitBridge /\ [][NextBridge]_vars

\* --------------------------------------------- threads on the loader
\* LoadPlugin and UnloadPlugin hold no lock: two threads run them statement
\* by statement, in any interleaving.  Each thread runs up to MaxOps
\* operations on well-behaved binaries without lifecycle hooks.
ConcFrame ==
    /\ UNCHANGED <<registered_plugins_, func_mapping_, disk, calls, last>>
    /\ UNCHANGED indexVars

Step(t, pc) == [thr EXCEPT ![t].pc = pc]

Return(t, status) ==
    [thr EXCEPT ![t].pc = "idle", ![t].status = status, ![t].ops = @ + 1]

\* A thread has run a statement of the body of its operation and has not
\* returned.
InBody(t) == thr[t].pc \in {"open", "store", "name", "close", "erase_name", "erase"}

StartLoad(t, path, name) ==
    /\ ConcFrame
    /\ running /\ thr[t].pc = "idle" /\ thr[t].ops < MaxOps
    /\ thr' = [thr EXCEPT ![t] = [pc |-> "check", op |-> "LoadPlugin", path |-> path,
                                  name |-> name, status |-> "", ops |-> @.ops]]
    /\ UNCHANGED <<loaded_plugins_, plugin_names_, dl_refs, heap, net, running>>

\* if (loaded_plugins_.find(path) != loaded_plugins_.end()) return invalid_args
LoadCheck(t) ==
    /\ ConcFrame
    /\ running /\ thr[t].pc = "check"
    /\ thr' = IF AlreadyLoaded(loaded_plugins_, thr[t].path)
                  THEN Return(t, "invalid_args") ELSE Step(t, "open")
    /\ UNCHANGED <<loaded_plugins_, plugin_names_, dl_refs, heap, net, running>>

\* dlopen, the version check, create_factory(), GetPluginInfo(): the thread's
\* own handle and factory.
LoadOpen(t) ==
    /\ ConcFrame
    /\ running /\ thr[t].pc = "open"
    /\ dl_refs[thr[t].path] < MaxRefs
    /\ dl_refs' = [dl_refs EXCEPT ![thr[t].path] = @ + 1]
    /\ heap' = [heap EXCEPT ![thr[t].path] = @ + 1]
    /\ thr' = Step(t, "store")
    /\ UNCHANGED <<loaded_plugins_, plugin_names_, net, running>>

\* loaded_plugins_[path] = std::move(plugin): a LoadedPlugin already stored
\* under the path is assigned over, its factory deleted, its handle dropped
\* without dlclose.
LoadStore(t) ==
    /\ ConcFrame
    /\ running /\ thr[t].pc = "store"
    /\ LET path == thr[t].path
           plugin == [path |-> path, handle |-> path, factory |-> path, lifecycle |-> FALSE,
                      info |-> [name |-> thr[t].name,
                                api_version |-> KNOWHERE_PLUGIN_API_VERSION]]
       IN  /\ heap' = IF path \in DOMAIN loaded_plugins_
                          THEN [heap EXCEPT ![path] = @ - 1] ELSE heap
           /\ loaded_plugins_' = Put(loaded_plugins_, path, plugin)
    /\ thr' = Step(t, "name")
    /\ UNCHANGED <<plugin_names_, dl_refs, net, running>>

\* plugin_names_[info.name] = path; return Status::success()
LoadName(t) ==
    /\ ConcFrame
    /\ running /\ thr[t].pc = "name"
    /\ plugin_names_' = Put(plugin_names_, thr[t].name, thr[t].path)
    /\ net' = [net EXCEPT ![thr[t].path] = @ + 1]
    /\ thr' = Return(t, "success")
    /\ UNCHANGED <<loaded_plugins_, dl_refs, heap, running>>

StartUnload(t, name) ==
    /\ ConcFrame
    /\ running /\ thr[t].pc = "idle" /\ thr[t].ops < MaxOps
    /\ thr' = [thr EXCEPT ![t] = [pc |-> "find", op |-> "UnloadPlugin", path |-> 0,
                                  name |-> name, status |-> "", ops |-> @.ops]]
    /\ UNCHANGED <<loaded_plugins_, plugin_names_, dl_refs, heap, net, running>>

\* The two find() calls of UnloadPlugin.
UnloadFind(t) ==
    /\ ConcFrame
    /\ running /\ thr[t].pc = "find"
    /\ thr' = IF thr[t].name \notin DOMAIN plugin_names_
                  THEN Return(t, "invalid_args")
              ELSE IF plugin_names_[thr[t].name] \notin DOMAIN loaded_plugins_
                  THEN Return(t, "invalid_args")
              ELSE [thr EXCEPT ![t].pc = "close", ![t].path = plugin_names_[thr[t].name]]
    /\ UNCHANGED <<loaded_plugins_, plugin_names_, dl_refs, heap, net, running>>

\* dlclose(it->second.handle); the iterator is dead when another thread
\* erased the entry meanwhile: the process crashes or the stale handle is
\* closed again.
UnloadClose(t) ==
    /\ ConcFrame
    /\ running /\ thr[t].pc = "close"
    /\ \E outcome \in (IF thr[t].path \in DOMAIN loaded_plugins_
                           THEN {"returns"} ELSE {"returns", "crash"}) :
           /\ running' = (outcome = "returns")
           /\ dl_refs' = IF outcome = "returns" /\ dl_refs[thr[t].path] > 0
                             THEN [dl_refs EXCEPT ![thr[t].path] = @ - 1] ELSE dl_refs
    /\ thr' = Step(t, "erase_name")
    /\ UNCHANGED <<loaded_plugins_, plugin_names_, heap, net>>

\* plugin_names_.erase(name)
UnloadEraseName(t) ==
    /\ ConcFrame
    /\ running /\ thr[t].pc = "erase_name"
    /\ plugin_names_' = Erase(plugin_names_, thr[t].name)
    /\ thr' = Step(t, "erase")
    /\ UNCHANGED <<loaded_plugins_, dl_refs, heap, net, running>>

\* loaded_plugins_.erase(it): the LoadedPlugin is destroyed, its factory
\* deleted; erase through a dead iterator crashes or does nothing.
UnloadErase(t) ==
    /\ ConcFrame
    /\ running /\ thr[t].pc = "erase"
    /\ LET path == thr[t].path
       IN  IF path \in DOMAIN loaded_plugins_
               THEN /\ loaded_plugins_' = Erase(loaded_plugins_, path)
                    /\ heap' = [heap EXCEPT ![path] = IF @ > 0 THEN @ - 1 ELSE 0]
                    /\ UNCHANGED running
               ELSE /\ running' \in BOOLEAN
                    /\ UNCHANGED <<loaded_plugins_, heap>>
    /\ net' = [net EXCEPT ![thr[t].path] = @ - 1]
    /\ thr' = Return(t, "success")
    /\ UNCHANGED <<plugin_names_, dl_refs>>

NextConc ==
    \/ \E t \in Threads, path \in Paths, name \in Names : StartLoad(t, path, name)
    \/ \E t \in Threads : LoadCheck(t)
    \/ \E t \in Threads : LoadOpen(t)
    \/ \E t \in Threads : LoadStore(t)
    \/ \E t \in Threads : LoadName(t)
    \/ \E t \in Threads, name \in Names : StartUnload(t, name)
    \/ \E t \in Threads : UnloadFind(t)
    \/ \E t \in Threads : UnloadClose(t)
    \/ \E t \in Threads : UnloadEraseName(t)
    \/ \E t \in Threads : UnloadErase(t)

SpecConc == Init /\ [][NextConc]_vars

\* ------------------------------- threads on the loader and the bridge
\* RegisterPlugin and GetRegisteredPlugins hold no lock either: they run
\* statement by statement among the LoadPlugin and UnloadPlugin of other
\* threads.  A thread inside one of them carries the factory pointer it got
\* from GetPluginFactory in path, the descriptor name it read in info, and
\* the registered names it has still to visit in todo.
BridgeConcFrame ==
    /\ UNCHANGED <<disk, calls, last, dl_refs, heap, net, loaded_plugins_, plugin_names_>>
    /\ UNCHANGED indexVars

BridgeThread(pc, op, name, todo, ops) ==
    [pc |-> pc, op |-> op, path |-> 0, name |-> name, status |-> "", ops |-> ops,
     info |-> "", todo |-> todo]

\* The module the pointer p referred to is unloaded or being torn down: its
\* library is closed or its LoadedPlugin erased.
Dangling(p) == p \notin DOMAIN loaded_plugins_ \/ dl_refs[p] = 0

StartRegister(t, name) ==
    /\ BridgeConcFrame
    /\ running /\ thr[t].pc = "idle" /\ thr[t].ops < MaxOps
    /\ thr' = [thr EXCEPT ![t] =
                  BridgeThread("get_factory", "RegisterPlugin", name, <<>>, thr[t].ops)]
    /\ UNCHANGED <<registered_plugins_, func_mapping_, running>>

\* auto* plugin_factory = GetPluginFactory(name); if (!plugin_factory) return
RegisterGetFactory(t) ==
    /\ BridgeConcFrame
    /\ running /\ thr[t].pc = "get_factory"
    /\ thr' = IF GetPluginFactory(thr[t].name) = NULL
                  THEN Return(t, "invalid_args")
                  ELSE [thr EXCEPT ![t].pc = "probe", ![t].path = GetPluginFactory(thr[t].name)]
    /\ UNCHANGED <<registered_plugins_, func_mapping_, running>>

\* plugin_factory->GetPluginInfo(), plugin_factory->CreateIndex() and
\* temp_index->GetFeatures(): calls through the pointer; through a dangling
\* one the process crashes or reads some name.
RegisterProbe(t) ==
    /\ BridgeConcFrame
    /\ running /\ thr[t].pc = "probe"
    /\ IF Dangling(thr[t].path)
           THEN \/ running' = FALSE /\ thr' = [thr EXCEPT ![t].status = "crashed"]
                \/ \E n \in Names :
                      /\ thr' = [thr EXCEPT ![t].pc = "register", ![t].info = n]
                      /\ UNCHANGED running
           ELSE /\ thr' = [thr EXCEPT ![t].pc = "register",
                                      ![t].info = loaded_plugins_[thr[t].path].info.name]
                /\ UNCHANGED running
    /\ UNCHANGED <<registered_plugins_, func_mapping_>>

\* IndexFactory::Register(full_name, create_func, feature_set);
\* registered_plugins_[name] = full_name; return Status::success()
RegisterStore(t) ==
    /\ BridgeConcFrame
    /\ running /\ thr[t].pc = "register"
    /\ func_mapping_' = Register(func_mapping_, FullName(thr[t].info),
                                 CreateFunc(thr[t].path, GetFeatures(thr[t].info)))
    /\ registered_plugins_' = Put(registered_plugins_, thr[t].name, FullName(thr[t].info))
    /\ thr' = Return(t, "success")
    /\ UNCHANGED running

\* GetRegisteredPlugins(): the loop over registered_plugins_ in the map's
\* iteration order.
StartGetRegistered(t, order) ==
    /\ BridgeConcFrame
    /\ running /\ thr[t].pc = "idle" /\ thr[t].ops < MaxOps
    /\ thr' = [thr EXCEPT ![t] =
                  BridgeThread("list_get", "GetRegisteredPlugins", "", order, thr[t].ops)]
    /\ UNCHANGED <<registered_plugins_, func_mapping_, running>>

\* auto* factory = GetPluginFactory(name); if (factory) ...
ListGetFactory(t) ==
    /\ BridgeConcFrame
    /\ running /\ thr[t].pc = "list_get"
    /\ thr' = IF thr[t].todo = <<>> THEN Return(t, "success")
              ELSE IF GetPluginFactory(Head(thr[t].todo)) = NULL
                  THEN [thr EXCEPT ![t].todo = Tail(@)]
                  ELSE [thr EXCEPT ![t].pc = "list_deref",
                                   ![t].path = GetPluginFactory(Head(thr[t].todo))]
    /\ UNCHANGED <<registered_plugins_, func_mapping_, running>>

\* result.emplace_back(full_name, factory->GetPluginInfo())
ListDeref(t) ==
    /\ BridgeConcFrame
    /\ running /\ thr[t].pc = "list_deref"
    /\ \E outcome \in (IF Dangling(thr[t].path) THEN {"returns", "crash"} ELSE {"returns"}) :
          /\ running' = (outcome = "returns")
          /\ thr' = IF outcome = "returns"
                        THEN [thr EXCEPT ![t].pc = "list_get", ![t].todo = Tail(@)]
                        ELSE [thr EXCEPT ![t].status = "crashed"]
    /\ UNCHANGED <<registered_plugins_, func_mapping_>>

NextBridgeConc ==
    \/ NextConc
    \/ \E t \in Threads, name \in Names : StartRegister(t, name)
    \/ \E t \in Threads : RegisterGetFactory(t)
    \/ \E t \in Threads : RegisterProbe(t)
    \/ \E t \in Threads : RegisterStore(t)
    \/ \E t \in Threads, order \in Perms(DOMAIN registered_plugins_) : StartGetRegistered(t, order)
    \/ \E t \in Threads : ListGetFactory(t)
    \/ \E t \in Threads : ListDeref(t)

SpecBridgeConc == Init /\ [][NextBridgeConc]_vars

\* --------------------------------------------- one index, one caller
SpecIndex == Init /\ [][NextIndex]_vars

SpecIndexConc == Init /\ [][NextIndexConc]_vars

\* ------------------------- the index operations under fair scheduling
\* A step of thread t inside an operation it has called, other than taking
\* the lock.
IndexThreadStep(t) ==
    \/ BuildCheck(t)
    \/ SearchCheck(t)
    \/ BuildStore(t)
    \/ BuildCopy(t)
    \/ SearchCompute(t)
    \/ GetVectorCopy(t)
    \/ SerializeWrite(t)
    \/ ReadMember(t)
    \/ DeserializeMeta(t)
    \/ DeserializeVectors(t)
    \/ Unlock(t)

\* Fair scheduling: a thread that can take a step is not passed over for
\* ever, and a thread that waits for the lock gets it when the lock is free
\* again and again.
FairIndexConc ==
    \A t \in Threads : WF_vars(IndexThreadStep(t)) /\ SF_vars(Lock(t))

SpecIndexConcFair == Init /\ [][NextIndexConc]_vars /\ FairIndexConc

\* ------------------------------------------------------- claims on Spec
SumRefs(refs) == LET RECURSIVE Sum(_)
                     Sum(S) == IF S = {} THEN 0
                               ELSE LET p == CHOOSE q \in S : TRUE IN refs[p] + Sum(S \ {p})
                 IN Sum(DOMAIN refs)

\* The step is a LoadPlugin(p).
IsLoadOf(p) == last'.op = "LoadPlugin" /\ last'.arg = ToString(p)

HasCall(cs, call, p, res) == \E i \in DOMAIN cs : cs[i] = Ev(call, p, res)

\* The version entry point of the binary at p reported a version other than
\* the host's.
ReportedMismatch(cs, p) ==
    \E v \in Versions \ {KNOWHERE_PLUGIN_API_VERSION} :
        HasCall(cs, "GetKnowherePluginAPIVersion", p, ToString(v))

\* No descriptor of the module at p is listed, and no name resolves to a
\* factory of the module at p.
NotRetained(lp, names, p) ==
    /\ \A d \in ListPluginsOn(lp) : d.path # p
    /\ \A n \in Names : GetPluginFactoryOn(lp, names, n) # p

\* C1: a LoadPlugin of a binary whose version entry point reports a version
\* other than KNOWHERE_PLUGIN_API_VERSION fails, its last call is the dlclose
\* of the handle it opened (the references on the library are what they were
\* before the call), and afterwards ListPlugins holds no descriptor of that
\* module and GetPluginFactory returns no factory of it, for any name.
C1_AbiGate ==
    [][\A p \in Paths :
          (IsLoadOf(p) /\ ReportedMismatch(calls', p)) =>
              /\ last'.status = "invalid_args"
              /\ calls'[1] = Ev("dlopen", p, "handle")
              /\ calls'[Len(calls')] = Ev("dlclose", p, "")
              /\ dl_refs' = dl_refs
              /\ NotRetained(loaded_plugins_', plugin_names_', p)
              /\ \A n \in Names : n \notin DOMAIN plugin_names_ =>
                                    GetPluginFactoryOn(loaded_plugins_', plugin_names_', n) = NULL]_vars

\* C1 witness: a version mismatch was met while another module is tracked.
C1_Witness ==
    /\ last.op = "LoadPlugin"
    /\ \E p \in Paths : ReportedMismatch(calls, p)
    /\ DOMAIN loaded_plugins_ # {}

\* One of the failures of LoadPlugin(p) that precede a usable factory: dlopen
\* failed, the version export or a factory export is missing, or the factory
\* entry point returned null.
FailedBeforeFactory(cs, p) ==
    \/ HasCall(cs, "dlopen", p, "NULL")
    \/ HasCall(cs, "dlsym GetKnowherePluginAPIVersion", p, "NULL")
    \/ HasCall(cs, "dlsym CreateKnowherePluginFactory", p, "NULL")
    \/ HasCall(cs, "dlsym DestroyKnowherePluginFactory", p, "NULL")
    \/ HasCall(cs, "CreateKnowherePluginFactory", p, "null")

\* C2: a LoadPlugin that fails because dlopen failed, the version export or
\* a factory export is missing, or the factory entry point returned null,
\* returns an error and leaves loaded_plugins_, plugin_names_ and the
\* library references exactly as they were; no factory of that module is
\* returned by GetPluginFactory (null for every name that resolved to nothing
\* before), and the open handles are as many as the tracked modules.
C2_FailedLoadLeavesNothing ==
    [][\A p \in Paths :
          (IsLoadOf(p) /\ FailedBeforeFactory(calls', p)) =>
              /\ last'.status = "invalid_args"
              /\ UNCHANGED <<loaded_plugins_, plugin_names_, dl_refs>>
              /\ NotRetained(loaded_plugins_', plugin_names_', p)
              /\ \A n \in Names : n \notin DOMAIN plugin_names_ =>
                                    GetPluginFactoryOn(loaded_plugins_', plugin_names_', n) = NULL
              /\ SumRefs(dl_refs') = Cardinality(DOMAIN loaded_plugins_')]_vars

\* C2 witness: the factory entry point returned null while a module is tracked.
C2_Witness ==
    /\ last.op = "LoadPlugin"
    /\ \E p \in Paths : HasCall(calls, "CreateKnowherePluginFactory", p, "null")
    /\ DOMAIN loaded_plugins_ # {}

\* C6: in UnloadPlugin and UnloadAll every module that is unloaded has its
\* handle closed, and when it has lifecycle hooks its OnUnload is called
\* before that dlclose, and never after it.
C6_HookBeforeRelease ==
    [][last'.op \in {"UnloadPlugin", "UnloadAll"} =>
          /\ last'.op = "UnloadAll" =>
                 \A p \in DOMAIN loaded_plugins_ : HasCall(calls', "dlclose", p, "")
          /\ (last'.op = "UnloadPlugin" /\ last'.arg \in DOMAIN plugin_names_) =>
                 HasCall(calls', "dlclose", plugin_names_[last'.arg], "")
          /\ \A i \in DOMAIN calls' :
                 calls'[i][1] = "dlclose" =>
                     LET p == calls'[i][2]
                     IN  /\ loaded_plugins_[p].lifecycle =>
                                \E j \in 1..(i - 1) : calls'[j][1] = "OnUnload" /\ calls'[j][2] = p
                         /\ ~\E j \in (i + 1)..Len(calls') :
                                calls'[j][1] = "OnUnload" /\ calls'[j][2] = p]_vars

\* C6 witness: an UnloadAll that called a hook and closed two handles.
C6_Witness ==
    /\ last.op = "UnloadAll"
    /\ \E i \in DOMAIN calls : calls[i][1] = "OnUnload"
    /\ Cardinality({i \in DOMAIN calls : calls[i][1] = "dlclose"}) >= 2

\* C9: LoadPlugin on a path that is tracked fails with no call at all (no
\* dlopen, no module code) and changes nothing of the loader; and in every
\* state the process holds at most one handle per path, exactly one for a
\* tracked path.
C9_NoSecondHandle ==
    [][/\ \A p \in Paths :
              (IsLoadOf(p) /\ p \in DOMAIN loaded_plugins_) =>
                  /\ last'.status = "invalid_args"
                  /\ calls' = <<>>
                  /\ UNCHANGED <<loaded_plugins_, plugin_names_, dl_refs>>
       /\ \A p \in Paths : dl_refs'[p] <= 1
       /\ running' => \A p \in DOMAIN loaded_plugins_' : dl_refs'[p] = 1]_vars

\* C9 witness: a LoadPlugin of a tracked path was refused.
C9_Witness ==
    /\ last.op = "LoadPlugin"
    /\ last.status = "invalid_args"
    /\ calls = <<>>
    /\ \E p \in DOMAIN loaded_plugins_ : last.arg = ToString(p)

\* C4: UnloadPlugin of a name that resolves to a module returns success,
\* after it GetPluginFactory of the name is null and a second UnloadPlugin of
\* the name fails as not found; UnloadPlugin of a name that resolves to
\* nothing fails and changes nothing.
C4_UnloadTwice ==
    [][last'.op = "UnloadPlugin" =>
          IF last'.arg \in DOMAIN plugin_names_
              THEN /\ last'.status = "success"
                   /\ GetPluginFactoryOn(loaded_plugins_', plugin_names_', last'.arg) = NULL
                   /\ UnloadPluginOn(loaded_plugins_', plugin_names_', last'.arg, "ok").status
                          = "invalid_args"
              ELSE /\ last'.status = "invalid_args"
                   /\ calls' = <<>>
                   /\ UNCHANGED <<loaded_plugins_, plugin_names_, dl_refs>>]_vars

\* C5: in UnloadPlugin and UnloadAll the factory of each unloaded module is
\* destroyed through the module's DestroyKnowherePluginFactory before the
\* module's handle is closed, and no factory is destroyed after the dlclose
\* of its module.
C5_FactoryDestroyedBeforeClose ==
    [][last'.op \in {"UnloadPlugin", "UnloadAll"} =>
          \A i \in DOMAIN calls' :
              calls'[i][1] = "dlclose" =>
                  LET p == calls'[i][2]
                  IN  /\ \E j \in 1..(i - 1) :
                             calls'[j] = Ev("DestroyKnowherePluginFactory", p, "")
                      /\ ~\E j \in (i + 1)..Len(calls') :
                             /\ calls'[j][2] = p
                             /\ calls'[j][1] \in {"delete factory",
                                                  "DestroyKnowherePluginFactory"}]_vars

\* Module code threw during the last operation.
ModuleThrew(cs) == \E i \in DOMAIN cs : ModuleCode(cs[i]) /\ Throws(cs[i][3])

\* C8: when module code throws during LoadPlugin (the version query, the
\* factory construction, the descriptor read, the load hook), whatever the
\* type of the exception, LoadPlugin returns an error status, its last call
\* is the dlclose of the handle, and the module is not tracked.
C8_ExceptionsCaught ==
    \A p \in Paths :
        (last.op = "LoadPlugin" /\ last.arg = ToString(p) /\ ModuleThrew(calls)) =>
            /\ last.status = "invalid_args"
            /\ calls[Len(calls)] = Ev("dlclose", p, "")
            /\ dl_refs[p] = 0
            /\ p \notin DOMAIN loaded_plugins_

\* C3: a constructor of the global registry whose module was unloaded after
\* RegisterPlugin installed it fails with an error when it is invoked, and
\* makes no call through the factory pointer it captured.
C3_ConstructorAfterUnload ==
    [][\A n \in Names :
          (/\ last'.op = "Create"
           /\ last'.arg = FullName(n)
           /\ FullName(n) \in DOMAIN func_mapping_
           /\ func_mapping_[FullName(n)].dangling) =>
              /\ last'.status = "invalid_args"
              /\ calls' = <<>>]_vars

\* The entries of the directory that are plugin files.
PluginFiles == {i \in DOMAIN disk : disk[i].plugin_file}

\* C10: LoadPluginsFromDirectory and LoadAndRegisterPlugins on a directory
\* that exists return success, and each plugin file of the directory is
\* tried whatever became of the others: it was tracked already or dlopen is
\* called on it, and a well-behaved one is tracked afterwards; after
\* LoadAndRegisterPlugins the name of every tracked module is registered.
C10_ScanContinues ==
    (last.op \in {"LoadPluginsFromDirectory", "LoadAndRegisterPlugins"} /\ last.arg = "plugins") =>
        /\ last.status = "success"
        /\ \A i \in PluginFiles :
               /\ \/ disk[i].path \in DOMAIN loaded_plugins_
                  \/ \E j \in DOMAIN calls : calls[j][1] = "dlopen" /\ calls[j][2] = disk[i].path
               /\ Faults(disk[i].binary) = 0 => disk[i].path \in DOMAIN loaded_plugins_
        /\ last.op = "LoadAndRegisterPlugins" =>
               \A p \in DOMAIN loaded_plugins_ :
                   loaded_plugins_[p].info.name \in DOMAIN registered_plugins_

\* C11: LoadAndRegisterPlugins, and InitializePlugins with an explicit
\* directory, on a directory that does not exist return success (the missing
\* directory is only logged).
C11_MissingDirectoryOnlyWarns ==
    (last.op \in {"LoadAndRegisterPlugins", "InitializePlugins"} /\ last.arg = "missing") =>
        last.status = "success"

\* C7: LoadPlugin and UnloadPlugin on the same module never interleave: no
\* two threads are inside the body of an operation on the same path, a path
\* is loaded successfully at most once more than it is unloaded, and when no
\* operation is running each tracked path has exactly one handle and one
\* factory, each other path none.
C7_LoadUnloadExclusive ==
    /\ \A t1, t2 \in Threads :
           (t1 # t2 /\ InBody(t1) /\ InBody(t2)) => thr[t1].path # thr[t2].path
    /\ \A p \in Paths : net[p] <= 1
    /\ (running /\ \A t \in Threads : thr[t].pc = "idle") =>
           \A p \in Paths :
               /\ dl_refs[p] = B2N(p \in DOMAIN loaded_plugins_)
               /\ heap[p] = B2N(p \in DOMAIN loaded_plugins_)

\* How many of the calls cs are the call named call on the module at p.
CallsOf(cs, call, p) == Cardinality({i \in DOMAIN cs : cs[i][1] = call /\ cs[i][2] = p})

C26_LifecycleNeverDeleted ==
    \A i \in DOMAIN calls : calls[i][1] # "delete lifecycle"

\* C28: a LoadPlugin whose OnLoad hook reports a failure succeeds, tracks
\* the module and makes its factory reachable by name; an UnloadPlugin whose
\* OnUnload hook reports a failure closes the handle of the module, and when
\* it has returned it has returned success and the module is tracked no more.
C28_HookResultsAdvisory ==
    [][\A p \in Paths :
          /\ (IsLoadOf(p) /\ HasCall(calls', "OnLoad", p, "fail")) =>
                /\ last'.status = "success"
                /\ p \in DOMAIN loaded_plugins_'
                /\ \E n \in Names :
                      GetPluginFactoryOn(loaded_plugins_', plugin_names_', n)
                          = loaded_plugins_'[p].factory
          /\ (last'.op = "UnloadPlugin" /\ HasCall(calls', "OnUnload", p, "fail")) =>
                /\ HasCall(calls', "dlclose", p, "")
                /\ dl_refs'[p] = 0
                /\ running' =>
                      /\ last'.status = "success"
                      /\ p \notin DOMAIN loaded_plugins_'
                      /\ last'.arg \notin DOMAIN plugin_names_']_vars

\* C28 witness: an UnloadPlugin returned success although the hook of the
\* module had reported a failure, while another module stays tracked.
C28_Witness ==
    /\ last.op = "UnloadPlugin" /\ last.status = "success" /\ running
    /\ \E p \in Paths : HasCall(calls, "OnUnload", p, "fail")
    /\ DOMAIN loaded_plugins_ # {}

\* C23: an UnregisterPlugin of a registered name succeeds, takes the name
\* (and no other) out of registered_plugins_, makes no call and leaves the
\* global registry and the loader's maps and handles as they were; an
\* UnregisterPlugin of a name that is not registered fails and changes
\* nothing.
C23_UnregisterOnlyBookkeeping ==
    [][last'.op = "UnregisterPlugin" =>
          /\ calls' = <<>>
          /\ UNCHANGED <<func_mapping_, loaded_plugins_, plugin_names_, dl_refs, heap>>
          /\ IF last'.arg \in DOMAIN registered_plugins_
                 THEN /\ last'.status = "success"
                      /\ DOMAIN registered_plugins_'
                             = DOMAIN registered_plugins_ \ {last'.arg}
                      /\ \A n \in DOMAIN registered_plugins_' :
                            registered_plugins_'[n] = registered_plugins_[n]
                 ELSE /\ last'.status = "invalid_args"
                      /\ UNCHANGED registered_plugins_]_vars

\* C23 witness: a name was unregistered whose constructor stays in the
\* global registry and whose module stays tracked.
C23_Witness ==
    /\ last.op = "UnregisterPlugin" /\ last.status = "success"
    /\ last.arg \notin DOMAIN registered_plugins_
    /\ \E n \in DOMAIN plugin_names_ :
          /\ last.arg = n
          /\ ("PLUGIN_" \o n) \in DOMAIN func_mapping_

\* C24: a RegisterPlugin of a name for which GetPluginFactory is null fails,
\* makes no call (no index is created) and leaves the global registry and
\* registered_plugins_ as they were; a RegisterPlugin that succeeds records
\* for the name "PLUGIN_" followed by the name in the module's descriptor,
\* and the global registry holds a constructor under it.
C24_RegisterUnknownFails ==
    [][last'.op = "RegisterPlugin" =>
          IF GetPluginFactory(last'.arg) = NULL
              THEN /\ last'.status = "invalid_args"
                   /\ calls' = <<>>
                   /\ UNCHANGED <<registered_plugins_, func_mapping_, loaded_plugins_,
                                  plugin_names_>>
              ELSE last'.status = "success" =>
                       LET info == loaded_plugins_[GetPluginFactory(last'.arg)].info
                       IN  /\ last'.arg \in DOMAIN registered_plugins_'
                           /\ registered_plugins_'[last'.arg] = "PLUGIN_" \o info.name
                           /\ ("PLUGIN_" \o info.name) \in DOMAIN func_mapping_']_vars

\* C24 witness: a RegisterPlugin of a name that resolves to nothing failed
\* while a module of another name is tracked.
C24_Witness ==
    /\ last.op = "RegisterPlugin" /\ last.status = "invalid_args"
    /\ calls = <<>>
    /\ GetPluginFactory(last.arg) = NULL
    /\ DOMAIN plugin_names_ # {}

\* C27: a LoadAndRegisterPlugins leaves every name that resolved to a
\* tracked module before the call registered if it was registered and
\* unregistered if it was not.
C27_OnlyNewModulesRegistered ==
    [][last'.op = "LoadAndRegisterPlugins" =>
          \A n \in DOMAIN plugin_names_ :
              (n \in DOMAIN registered_plugins_') = (n \in DOMAIN registered_plugins_)]_vars

\* C31: every tracked module is reachable by the name in its descriptor:
\* GetPluginFactory of the name of each descriptor of ListPlugins is the
\* factory of the module the descriptor is of, also when two binaries at
\* different paths report one name; and after an UnloadPlugin(name) that
\* returned success ListPlugins holds no descriptor of that name.
C31_TrackedReachableByName ==
    running =>
        /\ \A d \in ListPlugins :
              GetPluginFactory(d.info.name) = loaded_plugins_[d.path].factory
        /\ (last.op = "UnloadPlugin" /\ last.status = "success") =>
              \A d \in ListPlugins : d.info.name # last.arg

\* C32: every name the bridge reports as registered whose module is loaded
\* has its constructor in the global registry, and that constructor calls
\* the factory of the module loaded under the name now: none refers to the
\* factory of a module that was unloaded since.
C32_RegistrationRefersToLoaded ==
    running =>
        \A n \in DOMAIN registered_plugins_ :
            (IsPluginRegistered(n) /\ GetPluginFactory(n) # NULL) =>
                /\ Lookup(func_mapping_, GetRegisteredName(n))
                /\ ~func_mapping_[GetRegisteredName(n)].dangling
                /\ func_mapping_[GetRegisteredName(n)].factory = GetPluginFactory(n)

\* C34: a RegisterPlugin whose probe (the index the factory's CreateIndex
\* returns) is null returns an error, leaves the global registry and
\* registered_plugins_ as they were, and makes no GetFeatures call on the
\* null probe.
C34_NullProbeRejected ==
    [][(last'.op = "RegisterPlugin"
           /\ \E p \in Paths : HasCall(calls', "CreateIndex", p, "null")) =>
          /\ last'.status = "invalid_args"
          /\ UNCHANGED <<registered_plugins_, func_mapping_>>
          /\ \A i \in DOMAIN calls' : calls'[i][1] # "GetFeatures on null"]_vars

\* The calls a LoadPlugin makes before it trusts the module: on the dynamic
\* linker for the handle and the version entry point, and the version entry
\* point itself; and the dlclose of its exits.
VersionGateCalls == {"dlopen", "dlsym GetKnowherePluginAPIVersion",
                     "GetKnowherePluginAPIVersion", "dlclose"}

\* C36: in every LoadPlugin each lookup or call of a module symbol other
\* than the version entry point comes after the lookup of the version entry
\* point and after its call, which returned KNOWHERE_PLUGIN_API_VERSION;
\* when it returned another version the LoadPlugin makes no call besides
\* dlopen, that lookup, that call and dlclose.
C36_VersionCheckedFirst ==
    last.op = "LoadPlugin" =>
        /\ \A i \in DOMAIN calls :
              calls[i][1] \notin VersionGateCalls =>
                  \E j, k \in 1..(i - 1) :
                      /\ j < k
                      /\ calls[j] = Ev("dlsym GetKnowherePluginAPIVersion", calls[i][2], "present")
                      /\ calls[k] = Ev("GetKnowherePluginAPIVersion", calls[i][2],
                                       ToString(KNOWHERE_PLUGIN_API_VERSION))
        /\ \A p \in Paths :
              ReportedMismatch(calls, p) =>
                  \A i \in DOMAIN calls : calls[i][1] \in VersionGateCalls

\* C36 witness: a LoadPlugin that went on to the factory, the descriptor and
\* the load hook of the module.
C36_Witness ==
    /\ last.op = "LoadPlugin" /\ last.status = "success"
    /\ \E p \in Paths :
          /\ HasCall(calls, "GetKnowherePluginAPIVersion", p, ToString(KNOWHERE_PLUGIN_API_VERSION))
          /\ HasCall(calls, "GetPluginInfo", p, "returns")
          /\ HasCall(calls, "OnLoad", p, "ok")

\* C37: every descriptor of ListPlugins has the api_version
\* KNOWHERE_PLUGIN_API_VERSION: a module whose descriptor reports another
\* one is not loaded.
C37_DescriptorVersionGated ==
    \A d \in ListPlugins : d.info.api_version = KNOWHERE_PLUGIN_API_VERSION

\* ------------------------------------------ claims on SpecBridgeConc
\* Thread t holds a factory pointer that its next statement calls through.
Dereferencing(t) == thr[t].pc \in {"probe", "list_deref"}

\* C33: loader operations and the factory dereference of RegisterPlugin and
\* GetRegisteredPlugins exclude each other: when a thread is about to call
\* through the factory pointer it got from GetPluginFactory, the module the
\* pointer belongs to is still tracked with its library open, and no other
\* thread is inside the body of an UnloadPlugin of that module.
C33_DerefExcludesUnload ==
    running =>
        \A t \in Threads :
            Dereferencing(t) =>
                /\ ~Dangling(thr[t].path)
                /\ \A u \in Threads \ {t} :
                      ~(thr[u].op = "UnloadPlugin" /\ InBody(u) /\ thr[u].path = thr[t].path)

\* ------------------------------------------------ claims on SpecIndex
\* The ids 0 .. n - 1 in order.
AllIds(n) == [i \in 1..n |-> i - 1]

\* The build inputs of one row or more that Build accepts, each with the
\* binary set that Serialize writes for the index built from it.
BuiltAndSerialized ==
    {[in |-> b, binset |-> SerializeOn(BuildOn(Fresh, b.dataset, b.cfg).x, 0).value] :
        b \in {c \in BuildInputs :
                  /\ ~NoRawData(c.dataset)
                  /\ BuildOn(Fresh, c.dataset, c.cfg).status = "success"
                  /\ c.dataset.rows > 0}}

\* C12: a Deserialize of the binary set that Serialize wrote for an index
\* built with N > 0 rows of dimension D succeeds, whatever the instance held
\* before, and afterwards Count() = N, Dim() = D, the metric is that of the
\* built index, GetVectorByIds over the ids 0 .. N - 1 returns the rows that
\* were built, and the members are those of the built index.
C12_SerializeDeserialize ==
    ret.op = "Deserialize" =>
        \A p \in BuiltAndSerialized :
            ret.input = p.binset =>
                /\ ret.status = "success"
                /\ CountOn(Index) = p.in.dataset.rows
                /\ DimOn(Index) = p.in.dataset.dim
                /\ metric_type_ = p.in.cfg.metric_type
                /\ GetVectorByIdsOn(Index, AllIds(p.in.dataset.rows), 0).status = "success"
                /\ GetVectorByIdsOn(Index, AllIds(p.in.dataset.rows), 0).value.tensor
                       = p.in.dataset.tensor
                /\ Index = BuildOn(Fresh, p.in.dataset, p.in.cfg).x

\* C12 witness: MaxRows rows of dimension 2, not all alike, were deserialized.
C12_Witness ==
    /\ ret.op = "Deserialize" /\ ret.status = "success"
    /\ HasBlob(ret.input, "vectors")
    /\ num_vectors_ = MaxRows /\ dim_ = 2
    /\ \E i, j \in DOMAIN vectors_ : vectors_[i] # vectors_[j]

\* The call the caller holds the result of is a Search that passed the
\* dimension check on an index that holds rows.
SearchedRows ==
    /\ ret.op = "Search"
    /\ ret.input.dataset.dim = dim_
    /\ num_vectors_ > 0

\* The stored rows the exclusion filter of the held call leaves.
Surviving == {i \in 0..(num_vectors_ - 1) : i \notin ret.input.bitset}

\* Stored row i lies within the buffer.
Complete_(i) == (i + 1) * dim_ <= Len(vectors_)

\* Component d (from 1) of query row q (from 0) of the held call, and of
\* stored row i (from 0).
QueryAt(q, d) == ret.input.dataset.tensor[q * dim_ + d]

StoredAt(i, d) == vectors_[i * dim_ + d]

\* The distance of query row q to stored row i over the components 1 .. d:
\* the sum of the squared differences under L2, the negated inner product
\* otherwise.
RECURSIVE Distance(_, _, _)
Distance(q, i, d) ==
    IF d = 0 THEN 0
    ELSE Distance(q, i, d - 1)
         + (IF metric_type_ = "L2"
                THEN (QueryAt(q, d) - StoredAt(i, d)) * (QueryAt(q, d) - StoredAt(i, d))
                ELSE 0 - QueryAt(q, d) * StoredAt(i, d))

\* Slot j (from 1) of result row q (from 0) of the held call.
SlotId(q, j) == ret.value.ids[q * ret.input.k + j]

SlotDistance(q, j) == ret.value.distances[q * ret.input.k + j]

\* C13: a Search with k no larger than the number of non-excluded stored
\* rows returns, for every query row, k slots whose ids are non-excluded
\* stored rows, whose distances are the distances to these rows, which are
\* strictly ascending in (distance, index) order, and which no row left out
\* precedes in that order.
C13_KSmallestPairs ==
    (SearchedRows /\ ret.status = "success" /\ ret.input.k <= Cardinality(Surviving)) =>
        /\ ret.value.rows = ret.input.dataset.rows
        /\ ret.value.dim = ret.input.k
        /\ \A q \in 0..(ret.input.dataset.rows - 1) :
              /\ \A j \in 1..ret.input.k :
                    /\ SlotId(q, j) \in Surviving
                    /\ Complete_(SlotId(q, j))
                    /\ SlotDistance(q, j) = Distance(q, SlotId(q, j), dim_)
              /\ \A j, l \in 1..ret.input.k :
                    j < l => PairLess(<<SlotDistance(q, j), SlotId(q, j)>>,
                                      <<SlotDistance(q, l), SlotId(q, l)>>)
              /\ \A i \in Surviving \ {SlotId(q, j) : j \in 1..ret.input.k} :
                    /\ Complete_(i)
                    /\ PairLess(<<SlotDistance(q, ret.input.k), SlotId(q, ret.input.k)>>,
                                <<Distance(q, i, dim_), i>>)

\* The ids in the result slots of the held call.
ReturnedIds == {ret.value.ids[j] : j \in DOMAIN ret.value.ids}

\* C14: no stored row that the exclusion filter of a Search marks is in a
\* result slot of any query row of that Search.
C14_ExcludedNeverReturned ==
    (ret.op = "Search" /\ ret.status = "success") =>
        \A i \in ret.input.bitset : i \notin ReturnedIds

\* C14 witness: a Search returned a row while a marked stored row was
\* strictly nearer to the query than the row in the first slot.
C14_Witness ==
    /\ SearchedRows /\ ret.status = "success"
    /\ SlotId(0, 1) # -1
    /\ \E i \in ret.input.bitset :
          /\ i < num_vectors_ /\ Complete_(i)
          /\ Distance(0, i, dim_) < SlotDistance(0, 1)

\* C15: a Search on an index that holds rows, of which fewer than k survive
\* the exclusion filter, returns for every query row the surviving rows in
\* its first slots, each once and in ascending order of distance, and -1
\* with the maximum float in the slots that remain.
C15_ShortfallFilled ==
    (SearchedRows /\ ret.status = "success" /\ Cardinality(Surviving) < ret.input.k) =>
        LET S == Cardinality(Surviving)
        IN  /\ ret.value.rows = ret.input.dataset.rows
            /\ ret.value.dim = ret.input.k
            /\ \A q \in 0..(ret.input.dataset.rows - 1) :
                  /\ \A j \in 1..S : SlotId(q, j) \in Surviving
                  /\ \A j, l \in 1..S :
                        j < l => /\ SlotId(q, j) # SlotId(q, l)
                                 /\ SlotDistance(q, j) <= SlotDistance(q, l)
                  /\ \A j \in (S + 1)..ret.input.k :
                        /\ SlotId(q, j) = -1
                        /\ SlotDistance(q, j) = FloatMax

\* C15 witness: k is one more than the MaxRows rows stored, none excluded,
\* and the rows differ in distance.
C15_Witness ==
    /\ SearchedRows /\ ret.status = "success"
    /\ ret.input.bitset = {}
    /\ num_vectors_ = MaxRows /\ ret.input.k = MaxRows + 1
    /\ SlotDistance(0, 1) < SlotDistance(0, MaxRows)
    /\ SlotId(0, MaxRows + 1) = -1

\* The positions of the ids of the held request that lie outside
\* [0, Count()).
OutOfRange == {j \in DOMAIN ret.input : ret.input[j] < 0 \/ ret.input[j] >= CountOn(Index)}

\* C16: a GetVectorByIds with an id outside [0, Count()) fails with
\* invalid_args naming the first such id and returns no rows; one whose ids
\* are all in range returns the stored rows of these ids in request order.
C16_GetVectorByIds ==
    ret.op = "GetVectorByIds" =>
        IF OutOfRange # {}
            THEN /\ ret.status = "invalid_args"
                 /\ ret.value.id = ret.input[CHOOSE j \in OutOfRange : \A l \in OutOfRange : j <= l]
                 /\ "tensor" \notin DOMAIN ret.value
            ELSE /\ ret.status = "success"
                 /\ ret.value.rows = Len(ret.input)
                 /\ ret.value.dim = DimOn(Index)
                 /\ Len(ret.value.tensor) = Len(ret.input) * dim_
                 /\ \A j \in DOMAIN ret.input :
                       /\ Complete_(ret.input[j])
                       /\ \A d \in 1..dim_ :
                             ret.value.tensor[(j - 1) * dim_ + d] = StoredAt(ret.input[j], d)

\* C19: while neither a Build nor a Deserialize of the instance has
\* succeeded, no Search, RangeSearch, Serialize or GetVectorByIds returns
\* success.
C19_UnbuiltFailsFast ==
    (~built /\ ret.op \in {"Search", "RangeSearch", "Serialize", "GetVectorByIds"}) =>
        ret.status # "success"

\* C20: a Search on an index that holds no rows, with a query of the
\* dimension of the index, succeeds with one result row per query row and
\* no slot in any of them.
C20_EmptyIndexEmptyResult ==
    (ret.op = "Search" /\ num_vectors_ = 0 /\ ret.input.dataset.dim = dim_) =>
        /\ ret.status = "success"
        /\ ret.value.rows = ret.input.dataset.rows
        /\ ret.value.dim = 0
        /\ ret.value.ids = <<>>
        /\ ret.value.distances = <<>>

\* C20 witness: the index was built from a dataset of no rows and searched
\* with MaxQueries query rows and k above 1.
C20_Witness ==
    /\ ret.op = "Search" /\ ret.status = "success"
    /\ built /\ num_vectors_ = 0 /\ ret.input.dataset.dim = dim_
    /\ ret.input.dataset.rows = MaxQueries /\ ret.input.k > 1
    /\ ret.value.rows = MaxQueries

\* C21: a Build of a dataset that carries no raw data, or whose dimension
\* is not the configured one, returns invalid_args, and a Build that returns
\* invalid_args leaves the members as they were.
C21_BuildRejects ==
    [][(ret'.op = "Build" /\ ret.op = "none") =>
          /\ (NoRawData(ret'.input.dataset)
                 \/ ret'.input.dataset.dim # ret'.input.cfg.dim) =>
                    ret'.status = "invalid_args"
          /\ ret'.status = "invalid_args" => Index' = Index]_vars

\* C22: a Deserialize of a binary set without a metadata blob returns
\* invalid_args; so does one whose metadata declares one row or more and
\* that has no vector blob; one whose metadata declares no row succeeds
\* without a vector blob.
C22_DeserializeErrors ==
    ret.op = "Deserialize" =>
        IF ~HasBlob(ret.input, "meta")
            THEN ret.status = "invalid_args"
        ELSE IF HasBlob(ret.input, "vectors") THEN TRUE
        ELSE IF ret.input.meta.num_vectors = ToString(0)
            THEN ret.status = "success"
            ELSE ret.status = "invalid_args"

\* C22 witness: the metadata declared MaxRows rows, there was no vector
\* blob, and the call returned invalid_args.
C22_Witness ==
    /\ ret.op = "Deserialize" /\ ret.status = "invalid_args"
    /\ HasBlob(ret.input, "meta") /\ ~HasBlob(ret.input, "vectors")
    /\ ret.input.meta.num_vectors = ToString(MaxRows)

\* C29: a Deserialize that returns an error leaves count, dimension, metric
\* and stored vectors as they were before the call.
C29_FailedDeserializeChangesNothing ==
    [][(ret'.op = "Deserialize" /\ ret.op = "none" /\ ret'.status = "invalid_args") =>
          Index' = Index]_vars

\* C30: in every state the buffer of stored vectors holds exactly
\* Count() x Dim() elements.
C30_BufferIsCountTimesDim ==
    Len(vectors_) = CountOn(Index) * DimOn(Index)

\* C35: a Deserialize of a binary set that has both blobs and whose
\* metadata declares count x dim x sizeof(float) other than the size of the
\* vector blob returns invalid_args: the blob is not read.
C35_BlobSizeChecked ==
    (/\ ret.op = "Deserialize"
     /\ HasBlob(ret.input, "meta") /\ HasBlob(ret.input, "vectors")
     /\ Declared(ret.input) * SizeofFloat # ret.input.vectors.size) =>
        ret.status = "invalid_args"

\* Row i (from 0) of a dataset.
RowOf(dataset, i) == [d \in 1..dataset.dim |-> dataset.tensor[i * dataset.dim + d]]

\* The query that consists of row i of a dataset.
RowQuery(dataset, i) == [rows |-> 1, dim |-> dataset.dim, tensor |-> RowOf(dataset, i)]

\* C38: after a Build that returned success for a dataset of R rows of
\* dimension D, whatever the instance held before, Count() = Size() = R,
\* Dim() = D, the buffer holds the R x D values of the dataset and nothing
\* else, GetVectorByIds of each id in [0, R) returns that row of the
\* dataset, the members are those of a new instance built from the dataset
\* (what a following Search computes on), and under L2 a Search for a row of
\* the dataset finds a row equal to it at distance 0.
C38_BuildThenRead ==
    (ret.op = "Build" /\ ret.status = "success" /\ ~NoRawData(ret.input.dataset)) =>
        LET ds == ret.input.dataset
        IN  /\ CountOn(Index) = ds.rows
            /\ SizeOn(Index) = ds.rows
            /\ DimOn(Index) = ds.dim
            /\ vectors_ = ds.tensor
            /\ Index = BuildOn(Fresh, ds, ret.input.cfg).x
            /\ \A i \in 0..(ds.rows - 1) :
                  /\ GetVectorByIdsOn(Index, <<i>>, 0).status = "success"
                  /\ GetVectorByIdsOn(Index, <<i>>, 0).value.tensor = RowOf(ds, i)
                  /\ metric_type_ = "L2" =>
                        LET r == SearchOn(Index, RowQuery(ds, i), 1, {}, 0)
                        IN  /\ r.status = "success"
                            /\ r.value.distances = <<0>>
                            /\ RowOf(ds, r.value.ids[1]) = RowOf(ds, i)

\* C38 witness: a Build of MaxRows rows of dimension 2 that are not all
\* alike returned success.
C38_Witness ==
    /\ ret.op = "Build" /\ ret.status = "success" /\ ~NoRawData(ret.input.dataset)
    /\ ret.input.dataset.rows = MaxRows /\ ret.input.dataset.dim = 2
    /\ RowOf(ret.input.dataset, 0) # RowOf(ret.input.dataset, MaxRows - 1)
    /\ vectors_ = ret.input.dataset.tensor

\* C39: a Serialize leaves count, dimension, metric and stored vectors as
\* they were, and the binary set it returns with holds a metadata blob that
\* records the count, the dimension and the metric of the index, holds a
\* vector blob if and only if the count is above 0, and that blob is of
\* count x dim x sizeof(float) bytes.
C39_SerializeWrites ==
    [][(ret'.op = "Serialize" /\ ret.op = "none") =>
          /\ Index' = Index
          /\ ret'.status = "success" =>
                LET binset == ret'.value
                IN  /\ HasBlob(binset, "meta")
                    /\ binset.meta.num_vectors = ToString(CountOn(Index))
                    /\ binset.meta.dim = ToString(DimOn(Index))
                    /\ binset.meta.metric_type = metric_type_
                    /\ HasBlob(binset, "vectors") <=> CountOn(Index) > 0
                    /\ HasBlob(binset, "vectors") =>
                          /\ binset.vectors.size = CountOn(Index) * DimOn(Index) * SizeofFloat
                          /\ Len(binset.vectors.data) * SizeofFloat = binset.vectors.size]_vars

\* C39 witness: an index built from no rows was serialized: the binary set
\* holds the metadata blob alone.
C39_Witness ==
    /\ ret.op = "Serialize" /\ ret.status = "success"
    /\ built /\ num_vectors_ = 0 /\ dim_ = 2
    /\ HasBlob(ret.value, "meta") /\ ~HasBlob(ret.value, "vectors")

\* ------------------------------------------- claims on SpecIndexConc
\* C17: no two threads are between the lock_guard and the return of an
\* operation at once, and no thread makes the dimension check of Search,
\* which reads dim_, while another thread is there.
C17_OneThreadInside ==
    [][/\ \A t, u \in Threads : (Inside(t) /\ Inside(u)) => t = u
       /\ \A t \in Threads :
             (ithr[t].op = "Search" /\ ithr[t].pc = "check" /\ ithr'[t].pc # "check") =>
                 \A u \in Threads \ {t} : ~Inside(u)]_vars

\* C18: a Search that computed distances computed them with the dim_ that
\* its dimension check compared the query with.
C18_CheckedIsComputed ==
    \A t \in Threads :
        (ithr[t].op = "Search" /\ ithr[t].used_dim # 0) => ithr[t].used_dim = ithr[t].dim

\* ------------------------------------------- claims on SpecIndexConcFair
\* C40: the lock is held only by a thread that is between its lock_guard
\* and its return (it is free whenever no thread is there), and under fair
\* scheduling every operation a thread has called (Build, Search,
\* Serialize, Deserialize, GetVectorByIds, Dim, Size, Count) returns,
\* unless the process has ended.
C40_NoOperationBlocks ==
    /\ [](/\ \A t \in Threads : (running /\ mutex_ = t) => Inside(t)
          /\ (running /\ \A t \in Threads : ~Inside(t)) => mutex_ = 0)
    /\ \A t \in Threads :
          (ithr[t].pc # "idle") ~> (ithr[t].pc = "idle" \/ ~running)

\* C40 witness: a thread waits for the lock that another thread holds.
C40_Witness ==
    /\ running
    /\ \E t, u \in Threads :
          /\ ithr[t].pc = "lock"
          /\ mutex_ = u /\ u # t /\ Inside(u)

====
